---- MODULE Spec2Model ----
(***************************************************************************)
(* Model of jira-cli-helper: the `status` command (src/index.ts) with its  *)
(* alias resolution, transition matching and Rescue Mode, over an abstract *)
(* issue-tracking gateway whose answers are nondeterministic.              *)
(*                                                                         *)
(* Strings that the code inspects character by character (regex match,     *)
(* toLowerCase, includes, split) are sequences of one-character strings.   *)
(* Optional values (undefined in the code) are sequences of length 0 or 1. *)
(***************************************************************************)
EXTENDS Integers, Sequences, FiniteSets, TLC

\* ------------------------------------------------------------------ bounds
MaxTransitions == 2
MaxComponents == 1

\* ----------------------------------------------------------- optional values
None == <<>>
Some(x) == <<x>>
IsSome(o) == Len(o) = 1
Val(o) == o[1]

\* ------------------------------------------------------------- characters
UpperChars == <<"A","B","C","D","E","F","G","H","I","J","K","L","M",
                "N","O","P","Q","R","S","T","U","V","W","X","Y","Z">>
LowerChars == <<"a","b","c","d","e","f","g","h","i","j","k","l","m",
                "n","o","p","q","r","s","t","u","v","w","x","y","z">>
DigitChars == {"0","1","2","3","4","5","6","7","8","9"}

IsUpper(c) == \E i \in 1..26 : UpperChars[i] = c
IsLower(c) == \E i \in 1..26 : LowerChars[i] = c
IsDigit(c) == c \in DigitChars

\* String.prototype.toLowerCase / toUpperCase, one character
LowerChar(c) == IF IsUpper(c) THEN LowerChars[CHOOSE i \in 1..26 : UpperChars[i] = c] ELSE c
UpperChar(c) == IF IsLower(c) THEN UpperChars[CHOOSE i \in 1..26 : LowerChars[i] = c] ELSE c

toLowerCase(s) == [i \in 1..Len(s) |-> LowerChar(s[i])]
toUpperCase(s) == [i \in 1..Len(s) |-> UpperChar(s[i])]

\* String.prototype.includes: t occurs in s as a contiguous substring
includes(s, t) ==
    \E i \in 1..(Len(s) + 1) :
        /\ i + Len(t) - 1 <= Len(s)
        /\ \A j \in 1..Len(t) : s[i + j - 1] = t[j]

\* ---------------------------------------------------------------- regex
\* /[A-Z]+-\d+/ (ci = FALSE) and /[A-Z]+-\d+/i (ci = TRUE), unanchored.
IsKeyLetter(c, ci) == IsUpper(c) \/ (ci /\ IsLower(c))

\* end of the maximal run of characters satisfying the class, starting at i
RECURSIVE LetterRunEnd(_, _, _)
LetterRunEnd(s, i, ci) ==
    IF i + 1 <= Len(s) /\ IsKeyLetter(s[i + 1], ci) THEN LetterRunEnd(s, i + 1, ci) ELSE i

RECURSIVE DigitRunEnd(_, _)
DigitRunEnd(s, i) ==
    IF i + 1 <= Len(s) /\ IsDigit(s[i + 1]) THEN DigitRunEnd(s, i + 1) ELSE i

\* the pattern matches starting exactly at position i
MatchesAt(s, i, ci) ==
    /\ i <= Len(s)
    /\ IsKeyLetter(s[i], ci)
    /\ LET j == LetterRunEnd(s, i, ci)
       IN  /\ j + 2 <= Len(s)
           /\ s[j + 1] = "-"
           /\ IsDigit(s[j + 2])

\* String.prototype.match(re): None when there is no match, else the
\* leftmost (greedy) matched substring
RegexMatch(s, ci) ==
    IF \E i \in 1..Len(s) : MatchesAt(s, i, ci)
    THEN LET i == CHOOSE k \in 1..Len(s) :
                     MatchesAt(s, k, ci) /\ \A l \in 1..(k - 1) : ~MatchesAt(s, l, ci)
             j == LetterRunEnd(s, i, ci)
         IN  Some(SubSeq(s, i, DigitRunEnd(s, j + 2)))
    ELSE None

\* finalKey.split('-')[0]
RECURSIVE SplitFirst(_, _)
SplitFirst(s, i) ==
    IF i > Len(s) \/ s[i] = "-" THEN SubSeq(s, 1, i - 1) ELSE SplitFirst(s, i + 1)

\* ------------------------------------------------------- string literals
S_ToDo        == <<"T","o"," ","D","o">>
S_InProgress  == <<"I","n"," ","P","r","o","g","r","e","s","s">>
S_CodeReview  == <<"C","o","d","e"," ","R","e","v","i","e","w">>
S_InReview    == <<"I","n"," ","R","e","v","i","e","w">>
S_Done        == <<"D","o","n","e">>
S_StartReview == <<"S","t","a","r","t"," ","R","e","v","i","e","w">>
S_Empty       == <<>>
S_todo        == <<"t","o","d","o">>
S_progress    == <<"p","r","o","g","r","e","s","s">>
S_review      == <<"r","e","v","i","e","w">>
S_cr          == <<"c","r">>
S_done        == <<"d","o","n","e">>
S_constructor == <<"c","o","n","s","t","r","u","c","t","o","r">>
S_PROJ1       == <<"P","R","O","J","-","1">>
S_proj1       == <<"p","r","o","j","-","1">>
S_branchKey   == <<"f","e","a","t","u","r","e","/","A","D","-","6","2","-",
                   "d","a","i","l","y","-","s","y","n","c">>
S_branchMain  == <<"m","a","i","n">>

\* --------------------------------------------------------------- aliases
DEFAULT_ALIASES ==
    [k \in {S_todo, S_progress, S_review, S_cr, S_done} |->
        CASE k = S_todo     -> S_ToDo
          [] k = S_progress -> S_InProgress
          [] k = S_review   -> S_CodeReview
          [] k = S_cr       -> S_CodeReview
          [] k = S_done     -> S_Done]

EmptyMap == [k \in {} |-> S_Empty]

\* { ...a, ...b }: own keys of both, b's value on a key of both
Spread(a, b) ==
    [k \in (DOMAIN a) \cup (DOMAIN b) |-> IF k \in DOMAIN b THEN b[k] ELSE a[k]]

\* property names every plain object inherits from Object.prototype
\* (constructor stands for them; its value is a function, not a string)
ObjectPrototypeKeys == {S_constructor}

\* JavaScript values that a property read of the alias map can produce
JsString(s) == [type |-> "string", val |-> s]
JsFunction == [type |-> "function", val |-> S_Empty]
JsUndefined == [type |-> "undefined", val |-> S_Empty]

\* obj[k]
GetProp(obj, k) ==
    IF k \in DOMAIN obj THEN JsString(obj[k])
    ELSE IF k \in ObjectPrototypeKeys THEN JsFunction
    ELSE JsUndefined

\* truthiness of a value: '' and undefined are falsy
Truthy(v) == (v.type = "function") \/ (v.type = "string" /\ v.val # S_Empty)

\* aliases[targetStatus] || targetStatus
SearchStatus(aliases, targetStatus) ==
    IF Truthy(GetProp(aliases, targetStatus))
    THEN GetProp(aliases, targetStatus)
    ELSE JsString(targetStatus)

\* ------------------------------------------------------- key resolution
\* getIssueKeyFromBranch: b is None when `git rev-parse` fails, else the
\* branch name (trim() removes only surrounding whitespace, which no key has)
getIssueKeyFromBranchAnyCase(b) ==
    IF IsSome(b) THEN RegexMatch(Val(b), TRUE) ELSE None

getIssueKeyFromBranch(b) ==
    IF IsSome(b) THEN RegexMatch(Val(b), FALSE) ELSE None

resolveKeyNoUpper(userInput, b) ==
    IF IsSome(userInput) /\ Val(userInput) # S_Empty /\ IsSome(RegexMatch(Val(userInput), TRUE))
    THEN [ok |-> TRUE, key |-> Val(userInput), detected |-> FALSE, queried |-> FALSE]
    ELSE LET gitKey == getIssueKeyFromBranch(b)
         IN  IF IsSome(gitKey) /\ Val(gitKey) # S_Empty
             THEN [ok |-> TRUE, key |-> Val(gitKey), detected |-> TRUE, queried |-> TRUE]
             ELSE [ok |-> FALSE, key |-> S_Empty, detected |-> FALSE, queried |-> TRUE]

resolveKeySilent(userInput, b) ==
    IF IsSome(userInput) /\ Val(userInput) # S_Empty /\ IsSome(RegexMatch(Val(userInput), TRUE))
    THEN [ok |-> TRUE, key |-> toUpperCase(Val(userInput)), detected |-> FALSE, queried |-> FALSE]
    ELSE LET gitKey == getIssueKeyFromBranch(b)
         IN  IF IsSome(gitKey) /\ Val(gitKey) # S_Empty
             THEN [ok |-> TRUE, key |-> Val(gitKey), detected |-> FALSE, queried |-> TRUE]
             ELSE [ok |-> FALSE, key |-> S_Empty, detected |-> FALSE, queried |-> TRUE]

\* resolveKey(userInput): ok = FALSE stands for the thrown
\* 'Could not detect Issue Key...' error; detected = the console notification;
\* queried = getIssueKeyFromBranch was called
resolveKey(userInput, b) ==
    IF IsSome(userInput) /\ Val(userInput) # S_Empty /\ IsSome(RegexMatch(Val(userInput), TRUE))
    THEN [ok |-> TRUE, key |-> toUpperCase(Val(userInput)), detected |-> FALSE, queried |-> FALSE]
    ELSE LET gitKey == getIssueKeyFromBranch(b)
         IN  IF IsSome(gitKey) /\ Val(gitKey) # S_Empty
             THEN [ok |-> TRUE, key |-> Val(gitKey), detected |-> TRUE, queried |-> TRUE]
             ELSE [ok |-> FALSE, key |-> S_Empty, detected |-> FALSE, queried |-> TRUE]

\* ---------------------------------------------------- transition matching
\* a transition is [id, name, to]: id an optional identifier, name an
\* optional string, to the optional name of the destination status
\* (None when t.to or t.to.name is undefined)
LowerOrEmpty(o) == IF IsSome(o) THEN toLowerCase(Val(o)) ELSE S_Empty

\* the predicate of transitions.find in findMatch
TransitionMatches(t, term) ==
    \/ includes(LowerOrEmpty(t.name), toLowerCase(term))
    \/ includes(LowerOrEmpty(t.to), toLowerCase(term))

findMatchLast(transitions, term) ==
    IF \E i \in 1..Len(transitions) : TransitionMatches(transitions[i], term)
    THEN Some(transitions[CHOOSE i \in 1..Len(transitions) :
                 /\ TransitionMatches(transitions[i], term)
                 /\ \A j \in (i + 1)..Len(transitions) : ~TransitionMatches(transitions[j], term)])
    ELSE None

findMatchOrFirst(transitions, term) ==
    IF \E i \in 1..Len(transitions) : TransitionMatches(transitions[i], term)
    THEN Some(transitions[CHOOSE i \in 1..Len(transitions) :
                 /\ TransitionMatches(transitions[i], term)
                 /\ \A j \in 1..(i - 1) : ~TransitionMatches(transitions[j], term)])
    ELSE Some(transitions[1])

\* findMatch(transitions, term): Array.prototype.find, None for undefined
findMatch(transitions, term) ==
    IF \E i \in 1..Len(transitions) : TransitionMatches(transitions[i], term)
    THEN Some(transitions[CHOOSE i \in 1..Len(transitions) :
                 /\ TransitionMatches(transitions[i], term)
                 /\ \A j \in 1..(i - 1) : ~TransitionMatches(transitions[j], term)])
    ELSE None

\* !match.id is false
HasId(t) == IsSome(t.id) /\ Val(t.id) # ""

\* ------------------------------------------------------- edit payloads
\* a payload { [field]: body }; shape names the body built from value v:
\*   "adf"        {version:1,type:"doc",content:[{type:"paragraph",content:[{type:"text",text:v}]}]}
\*   "string"     v
\*   "valueList"  [{ value: v }]
\*   "valueObj"   { value: v }
\*   "nameList"   [{ name: v }]
Payload(field, shape, v) == [field |-> field, shape |-> shape, value |-> v]
NoPayload == Payload("", "", "")

\* getAffectedFieldId() || 'components'
CustomFieldId(stored) == IF IsSome(stored) /\ Val(stored) # "" THEN Val(stored) ELSE "components"

EditPayloadsNoShortcut(customFieldId, finalValue) ==
    << Payload(customFieldId, "adf", finalValue),
       Payload(customFieldId, "string", finalValue),
       Payload(customFieldId, "valueList", finalValue),
       Payload(customFieldId, "valueObj", finalValue) >>

\* the editPayloads array after the `components` special case
EditPayloads(customFieldId, finalValue) ==
    IF customFieldId = "components"
    THEN << Payload("components", "nameList", finalValue) >>
    ELSE << Payload(customFieldId, "adf", finalValue),
            Payload(customFieldId, "string", finalValue),
            Payload(customFieldId, "valueList", finalValue),
            Payload(customFieldId, "valueObj", finalValue) >>

\* ------------------------------------------------------------ input sets
\* transitions a gateway may advertise
TransitionUniverse ==
    { [id |-> Some("11"), name |-> Some(S_StartReview), to |-> Some(S_CodeReview)],
      [id |-> Some("31"), name |-> None,                to |-> Some(S_InReview)],
      [id |-> None,       name |-> None,                to |-> Some(S_CodeReview)] }

ComponentUniverse == { Some("Backend"), None }

SeqsUpTo(S, n) == UNION { [1..k -> S] : k \in 0..n }

\* argv of `jira status [arg1] [arg2]`
ArgPairs ==
    { <<Some(S_PROJ1), Some(S_done)>>,
      <<Some(S_proj1), Some(S_cr)>>,
      <<Some(S_PROJ1), Some(S_constructor)>>,
      <<Some(S_PROJ1), None>>,
      <<Some(S_review), None>>,
      <<None, None>> }

\* the stored transitionAliases
UserAliasMaps ==
    { EmptyMap,
      [k \in {S_cr} |-> S_InReview],
      [k \in {S_done} |-> S_Empty] }

\* the stored affectedFieldId
StoredFieldIds == { None, Some("components"), Some("customfield_10050") }

\* the current branch: None when the version-control query fails
BranchStates == { None, Some(S_branchMain), Some(S_branchKey) }

ManualEntry == "[Manual Text Entry]"
ManualTexts == { "Checkout" }

GatewayError == "Request failed with status code 400"

\* ------------------------------------------------------------------ state
VARIABLES
    creds,            \* getCreds() returns credentials
    userAliases,      \* config transitionAliases
    affectedFieldId,  \* config affectedFieldId
    gitQueried,       \* `git rev-parse --abbrev-ref HEAD` was run
    branch,           \* its answer (None before it is run, and when it fails)
    arg1, arg2,       \* positional arguments
    pc,               \* position of the status handler
    outcome,          \* "running", "returned" or "uncaught" (rejected promise)
    out,              \* console lines, in order
    calls,            \* gateway calls, in order
    finalKey, searchStatus,
    transitions,      \* the fetched transitions (<<>> before the fetch)
    match,            \* the result of findMatch (None for undefined)
    componentChoices, finalValue, customFieldId, editPayloads,
    idx,              \* position of the for-of loop over editPayloads
    updateSuccess,
    input,            \* arguments of the utility function under check
    result,           \* its return value (None before it returns)
    issues,           \* report: search.issues (<<>> before the search)
    pending,          \* report: issues whose getIssueWorklog is in flight
    totalSeconds,     \* report: let totalSeconds
    completed         \* report: the fetches that completed, in order

env == <<creds, userAliases, affectedFieldId, arg1, arg2>>
git == <<gitQueried, branch>>
matching == <<finalKey, searchStatus, transitions, match>>
rescue == <<componentChoices, finalValue, customFieldId, editPayloads, idx, updateSuccess>>
util == <<input, result>>
report == <<issues, pending, totalSeconds, completed>>
vars == <<env, git, pc, outcome, out, calls, matching, rescue, util, report>>

\* the report command is not running
ReportIdle ==
    /\ issues = <<>>
    /\ pending = {}
    /\ totalSeconds = 0
    /\ completed = <<>>

\* ----------------------------------------------------------- console lines
\* msg: the fixed or gateway-supplied text; name: an interpolated name;
\* ids: the other interpolated identifiers
Line(stream, kind, msg, name, ids) ==
    [stream |-> stream, kind |-> kind, msg |-> msg, name |-> name, ids |-> ids]

KeyErrorLine(msg)   == Line("error", "Message", msg, None, {})           \* console.error(chalk.red(e.message))
ErrorLine(msg)      == Line("error", "Error", msg, None, {})             \* console.error('Error:', message)
DetectedLine(k)     == Line("log", "Detected", "", Some(k), {})
NotFoundLine(term)  == Line("log", "NotFound", "", Some(term), {})
AvailableLine       == Line("log", "Available", "", None, {})
OptionLine(t)       == Line("log", "Option", "", t.name, {})
AttemptLine(t)      == Line("log", "Attempt", "", t.name, {})
SuccessMovedLine(st) == Line("log", "SuccessMovedTo", "", None, {st})      \* Success! Moved to [..].
RescueLine          == Line("log", "RescueMode", "", None, {})
FieldUpdatedLine    == Line("log", "FieldUpdated", "", None, {})
SuccessTicketLine   == Line("log", "SuccessTicketMoved", "", None, {})   \* Success! Ticket moved.
FailedUpdateLine    == Line("log", "FailedUpdate", "Failed to update field.", None, {})

\* ----------------------------------------------------------- gateway calls
\* ok records whether the gateway accepted the call
Call(op, key, id, fields, ok) == [op |-> op, key |-> key, id |-> id, fields |-> fields, ok |-> ok]

\* --------------------------------------------------------- control pieces
\* the handler returns after printing lines
Finish(lines) ==
    /\ out' = out \o lines
    /\ pc' = "done"
    /\ outcome' = "returned"

OuterCatchSilent(msg) == Finish(<<>>)

\* catch (error) of the outer try: console.error('Error:', error.message ...)
OuterCatch(msg) == Finish(<<ErrorLine(msg)>>)

\* an exception outside every try: the action's promise rejects
Uncaught ==
    /\ out' = out
    /\ pc' = "done"
    /\ outcome' = "uncaught"

\* exit code of the process: an unhandled rejection ends node with 1,
\* a handler that returns leaves the default 0
ExitCode == IF outcome = "uncaught" THEN 1 ELSE 0

Init ==
    /\ creds \in BOOLEAN
    /\ userAliases \in UserAliasMaps
    /\ affectedFieldId \in StoredFieldIds
    /\ gitQueried = FALSE
    /\ branch = None
    /\ \E a \in ArgPairs : arg1 = a[1] /\ arg2 = a[2]
    /\ pc = "start"
    /\ outcome = "running"
    /\ out = <<>>
    /\ calls = <<>>
    /\ finalKey = S_Empty
    /\ searchStatus = JsUndefined
    /\ transitions = <<>>
    /\ match = None
    /\ componentChoices = <<>>
    /\ finalValue = ""
    /\ customFieldId = ""
    /\ editPayloads = <<>>
    /\ idx = 0
    /\ updateSuccess = FALSE
    /\ input = None
    /\ result = None
    /\ ReportIdle

\* index.ts 207-229: client, aliases, key and target status, search term
Start ==
    /\ pc = "start"
    /\ UNCHANGED <<env, util, report, calls, transitions, match, rescue>>
    /\ IF ~creds
       THEN /\ Uncaught
            /\ UNCHANGED <<git, finalKey, searchStatus>>
       ELSE LET aliases == Spread(DEFAULT_ALIASES, userAliases)
                explicit == IsSome(arg1) /\ Val(arg1) # S_Empty
                            /\ IsSome(RegexMatch(Val(arg1), TRUE))
            IN  IF explicit
                THEN /\ UNCHANGED git
                     /\ finalKey' = toUpperCase(Val(arg1))
                     /\ IF ~IsSome(arg2) \/ Val(arg2) = S_Empty
                        THEN /\ Finish(<<KeyErrorLine("Target status is required.")>>)
                             /\ UNCHANGED searchStatus
                        ELSE /\ searchStatus' = SearchStatus(aliases, Val(arg2))
                             /\ pc' = "getTransitions"
                             /\ UNCHANGED <<out, outcome>>
                ELSE \E b \in BranchStates :
                     LET r == resolveKey(None, b)
                     IN  /\ gitQueried' = TRUE
                         /\ branch' = b
                         /\ IF ~r.ok
                            THEN /\ Finish(<<KeyErrorLine("Could not detect Issue Key")>>)
                                 /\ UNCHANGED <<finalKey, searchStatus>>
                            ELSE /\ finalKey' = r.key
                                 /\ IF ~IsSome(arg1) \/ Val(arg1) = S_Empty
                                    THEN /\ Finish(<<DetectedLine(r.key),
                                                     KeyErrorLine("Target status is required.")>>)
                                         /\ UNCHANGED searchStatus
                                    ELSE /\ searchStatus' = SearchStatus(aliases, Val(arg1))
                                         /\ out' = Append(out, DetectedLine(r.key))
                                         /\ pc' = "getTransitions"
                                         /\ outcome' = outcome

\* answers of client.issues.getTransitions: rejected, or { transitions }
\* with transitions undefined (None) or a list
TransitionResponses ==
    { [ok |-> FALSE, transitions |-> None], [ok |-> TRUE, transitions |-> None] }
    \cup { [ok |-> TRUE, transitions |-> Some(l)] :
              l \in SeqsUpTo(TransitionUniverse, MaxTransitions) }

\* index.ts 240-252: fetch the transitions and match the search term
GetTransitions ==
    /\ pc = "getTransitions"
    /\ UNCHANGED <<env, util, report, git, finalKey, searchStatus, rescue>>
    /\ \E resp \in TransitionResponses :
          /\ calls' = Append(calls, Call("getTransitions", finalKey, "", NoPayload, resp.ok))
          /\ IF ~resp.ok
             THEN OuterCatch(GatewayError) /\ UNCHANGED <<transitions, match>>
             ELSE IF ~IsSome(resp.transitions) \/ Len(Val(resp.transitions)) = 0
             THEN /\ OuterCatch("No transitions found or ticket is closed.")
                  /\ UNCHANGED <<transitions, match>>
             ELSE IF searchStatus.type # "string"
             THEN \* term.toLowerCase() inside the find callback throws a TypeError
                  /\ OuterCatch("term.toLowerCase is not a function")
                  /\ transitions' = Val(resp.transitions)
                  /\ UNCHANGED match
             ELSE LET ts == Val(resp.transitions)
                      m == findMatch(ts, searchStatus.val)
                  IN  /\ transitions' = ts
                      /\ match' = m
                      /\ IF ~IsSome(m) \/ ~HasId(Val(m))
                         THEN Finish(<<NotFoundLine(searchStatus.val), AvailableLine>>
                                     \o [i \in 1..Len(ts) |-> OptionLine(ts[i])])
                         ELSE /\ out' = Append(out, AttemptLine(Val(m)))
                              /\ pc' = "direct"
                              /\ outcome' = outcome

DirectCatchRethrow == OuterCatch(GatewayError)

\* index.ts 262-264: catch (e) { /* fall through */ } and the rescue banner
DirectCatch ==
    /\ out' = Append(out, RescueLine)
    /\ pc' = "components"
    /\ outcome' = outcome

\* index.ts 255-258: the direct doTransition
DirectMove ==
    /\ pc = "direct"
    /\ UNCHANGED <<env, util, report, git, matching, rescue>>
    /\ \E accepted \in BOOLEAN :
          /\ calls' = Append(calls, Call("doTransition", finalKey, Val(Val(match).id), NoPayload, accepted))
          /\ IF accepted
             THEN /\ pc' = "getIssue"
                  /\ UNCHANGED <<out, outcome>>
             ELSE DirectCatch

DirectSuccessNoReturn(status) ==
    /\ out' = out \o <<SuccessMovedLine(status), RescueLine>>
    /\ pc' = "components"
    /\ outcome' = outcome

\* index.ts 260-261: the success line and return
DirectSuccess(status) == Finish(<<SuccessMovedLine(status)>>)

\* index.ts 259-262: read the new status back; a failure of the read (or of
\* issueEnd.fields.status.name) is caught by the same catch as the move
GetIssue ==
    /\ pc = "getIssue"
    /\ UNCHANGED <<env, util, report, git, matching, rescue>>
    /\ \E resp \in {"Done", "rejected"} :
          /\ calls' = Append(calls, Call("getIssue", finalKey, "", NoPayload, resp # "rejected"))
          /\ IF resp # "rejected" THEN DirectSuccess(resp) ELSE DirectCatch

\* index.ts 266-269: fetch the project's components, build the choices
GetComponents ==
    /\ pc = "components"
    /\ UNCHANGED <<env, util, report, git, matching, finalValue, customFieldId, editPayloads, idx, updateSuccess>>
    /\ \E ok \in BOOLEAN :
          /\ calls' = Append(calls, Call("getProjectComponents", SplitFirst(finalKey, 1), "", NoPayload, ok))
          /\ IF ~ok
             THEN OuterCatch(GatewayError) /\ UNCHANGED componentChoices
             ELSE \E comps \in SeqsUpTo(ComponentUniverse, MaxComponents) :
                     /\ componentChoices' =
                           <<ManualEntry>> \o
                           [i \in 1..Len(comps) |->
                               IF IsSome(comps[i]) /\ Val(comps[i]) # "" THEN Val(comps[i]) ELSE "Unnamed"]
                     /\ pc' = "prompt"
                     /\ UNCHANGED <<out, outcome>>

\* index.ts 271-297: the user picks a value, the payloads are built
Prompt ==
    /\ pc = "prompt"
    /\ UNCHANGED <<env, util, report, git, matching, calls, componentChoices, updateSuccess>>
    /\ \/ \* the prompt rejects (closed input)
          /\ OuterCatch("User force closed the prompt")
          /\ UNCHANGED <<finalValue, customFieldId, editPayloads, idx>>
       \/ \E i \in 1..Len(componentChoices) :
          \E text \in ManualTexts :
             LET answer == componentChoices[i]
                 v == IF answer = ManualEntry THEN text ELSE answer
                 f == CustomFieldId(affectedFieldId)
             IN  /\ finalValue' = v
                 /\ customFieldId' = f
                 /\ editPayloads' = EditPayloads(f, v)
                 /\ idx' = 1
                 /\ pc' = "edit"
                 /\ UNCHANGED <<out, outcome>>

\* index.ts 312-314: no payload was accepted
EditLoopExhausted == Finish(<<FailedUpdateLine>>)

EditAcceptedContinue ==
    /\ updateSuccess' = TRUE
    /\ out' = Append(out, FieldUpdatedLine)
    /\ outcome' = outcome
    /\ IF idx < Len(editPayloads)
       THEN idx' = idx + 1 /\ pc' = pc
       ELSE idx' = idx /\ pc' = "retry"

\* index.ts 303-305: updateSuccess = true; log; break
EditAccepted ==
    /\ updateSuccess' = TRUE
    /\ out' = Append(out, FieldUpdatedLine)
    /\ pc' = "retry"
    /\ outcome' = outcome
    /\ idx' = idx

\* index.ts 300-307: one iteration of the loop over editPayloads
EditField ==
    /\ pc = "edit"
    /\ UNCHANGED <<env, util, report, git, matching, componentChoices, finalValue, customFieldId, editPayloads>>
    /\ \E accepted \in BOOLEAN :
          /\ calls' = Append(calls, Call("editIssue", finalKey, "", editPayloads[idx], accepted))
          /\ IF accepted
             THEN EditAccepted
             ELSE IF idx < Len(editPayloads)
             THEN /\ idx' = idx + 1
                  /\ UNCHANGED <<pc, out, outcome, updateSuccess>>
             ELSE /\ EditLoopExhausted
                  /\ UNCHANGED <<idx, updateSuccess>>

\* index.ts 309-311: the retry of the same transition
RetryMove ==
    /\ pc = "retry"
    /\ UNCHANGED <<env, util, report, git, matching, rescue>>
    /\ \E accepted \in BOOLEAN :
          /\ calls' = Append(calls, Call("doTransition", finalKey, Val(Val(match).id), NoPayload, accepted))
          /\ IF accepted THEN Finish(<<SuccessTicketLine>>) ELSE OuterCatch(GatewayError)

Next ==
    \/ Start
    \/ GetTransitions
    \/ DirectMove
    \/ GetIssue
    \/ GetComponents
    \/ Prompt
    \/ EditField
    \/ RetryMove

Spec == Init /\ [][Next]_vars

\* ------------------------------------------------- vocabulary of the claims
Last(q) == q[Len(q)]

CallsOf(op) == { i \in 1..Len(calls) : calls[i].op = op }
IsEdit(c) == c.op = "editIssue"
EditCalls == SelectSeq(calls, IsEdit)

\* position of the direct (first) doTransition call, 0 when there is none
DirectIdx ==
    IF CallsOf("doTransition") = {} THEN 0
    ELSE CHOOSE i \in CallsOf("doTransition") : \A j \in CallsOf("doTransition") : i <= j

DirectRejected == DirectIdx # 0 /\ ~calls[DirectIdx].ok

SuccessKinds == {"SuccessMovedTo", "SuccessTicketMoved"}
FailureKinds == {"Error", "FailedUpdate"}
StatusLines == { i \in 1..Len(out) : out[i].kind \in SuccessKinds \cup FailureKinds }

\* C1: a rejected direct doTransition is never reported as an error; the
\* handler prints the Rescue Mode banner and its next gateway call is the
\* component fetch.
C1_DirectRejectionEntersRescue ==
    DirectRejected =>
        /\ \E k \in 1..Len(out) :
              /\ out[k] = RescueLine
              /\ \A j \in 1..k : out[j].stream # "error"
        /\ IF Len(calls) = DirectIdx
           THEN pc = "components" /\ outcome = "running"
           ELSE calls[DirectIdx + 1].op = "getProjectComponents"

C1_Witness ==
    /\ DirectRejected
    /\ CallsOf("getProjectComponents") # {}
    /\ finalValue = "Backend"
    /\ CallsOf("editIssue") # {}

\* C2: doTransition is called at most twice in an invocation, each time for
\* the same issue with the identifier of the matched transition, and a
\* rejected second call ends the invocation with an Error line.
C2_SingleRetrySurfaced ==
    /\ Cardinality(CallsOf("doTransition")) <= 2
    /\ \A i \in CallsOf("doTransition") :
          /\ IsSome(match)
          /\ calls[i].id = Val(Val(match).id)
          /\ calls[i].key = finalKey
    /\ \A i \in CallsOf("doTransition") :
          (i # DirectIdx /\ ~calls[i].ok) =>
              /\ pc = "done"
              /\ outcome = "returned"
              /\ i = Len(calls)
              /\ Last(out) = ErrorLine(GatewayError)

C2_Witness ==
    /\ Cardinality(CallsOf("doTransition")) = 2
    /\ ~calls[Len(calls)].ok
    /\ calls[Len(calls)].op = "doTransition"
    /\ pc = "done"

\* C3: with the field identifier absent or "components", a rescue that
\* reaches the field update sends exactly one editIssue, whose payload is
\* {components:[{name:v}]} for the chosen value v, and an accepted retry
\* ends with the success line.
DefaultField == affectedFieldId = None \/ affectedFieldId = Some("components")

C3_DefaultFieldSinglePayload ==
    DefaultField =>
        /\ \A k \in 1..Len(EditCalls) :
              EditCalls[k].fields = Payload("components", "nameList", finalValue)
        /\ Len(EditCalls) <= 1
        /\ (pc \in {"retry", "done"} /\ idx >= 1) => Len(EditCalls) = 1
        /\ \A i \in CallsOf("doTransition") :
              (i # DirectIdx /\ calls[i].ok) =>
                  /\ pc = "done"
                  /\ Last(out) = SuccessTicketLine
                  /\ StatusLines = {Len(out)}

C3_Witness ==
    /\ DefaultField
    /\ pc = "done"
    /\ Len(EditCalls) = 1
    /\ EditCalls[1].fields = Payload("components", "nameList", "Backend")
    /\ Last(out) = SuccessTicketLine

\* C4: with another field identifier the editIssue payloads are, in order,
\* the rich-text document, the bare string, [{value}] and {value} of the
\* chosen value; at most four are sent and none after an accepted one.
CandidateShapes == <<"adf", "string", "valueList", "valueObj">>

C4_OrderedCandidatesStopAtFirst ==
    (idx >= 1 /\ customFieldId # "components") =>
        /\ Len(EditCalls) <= 4
        /\ \A k \in 1..Len(EditCalls) :
              /\ k <= 4
              /\ EditCalls[k].fields = Payload(customFieldId, CandidateShapes[k], finalValue)
              /\ EditCalls[k].ok => k = Len(EditCalls)

C4_Witness ==
    /\ customFieldId = "customfield_10050"
    /\ Len(EditCalls) = 3
    /\ EditCalls[3].ok
    /\ pc = "done"

\* C5: when every candidate payload was rejected the invocation ends with a
\* failure line that names the field identifier, and the transition is not
\* retried.
AllCandidatesRejected ==
    /\ Len(EditCalls) >= 1
    /\ Len(EditCalls) = Len(editPayloads)
    /\ \A k \in 1..Len(EditCalls) : ~EditCalls[k].ok

NamesField(line, field) == field \in line.ids

C5_AsClaimed ==
    AllCandidatesRejected =>
        /\ pc = "done"
        /\ Last(out).kind \in FailureKinds
        /\ Last(calls).op = "editIssue"
        /\ NamesField(Last(out), customFieldId)

\* C6: an invocation that reached the direct move ends with exactly one
\* status line, a success line or a failure line, and that line is its last
\* output; before the end no status line has been printed.
C6_ExactlyOneTerminalLine ==
    /\ pc # "done" => StatusLines = {}
    /\ (pc = "done" /\ DirectIdx # 0) =>
          /\ outcome = "returned"
          /\ StatusLines = {Len(out)}

C6_Witness ==
    /\ pc = "done"
    /\ DirectIdx # 0
    /\ calls[DirectIdx].ok
    /\ Last(out).kind = "Error"

\* C7: every error other than the rejected direct move ends the command with
\* a user-visible message and a non-zero exit code, and never leaves the
\* handler as an uncaught exception.
ErrorLines == { i \in 1..Len(out) : out[i].stream = "error" \/ out[i].kind = "FailedUpdate" }

C7_AsClaimed ==
    (pc = "done" /\ (outcome = "uncaught" \/ ErrorLines # {})) =>
        /\ outcome = "returned"
        /\ ErrorLines # {}
        /\ ExitCode # 0

\* C8: findMatch returns the first transition, in gateway order, whose name or
\* destination name contains the term as a case-insensitive substring, a
\* missing name or destination counting as the empty string; it returns
\* nothing exactly when no transition does.
ContainsIgnoringCase(o, term) ==
    LET str == IF IsSome(o) THEN Val(o) ELSE S_Empty
    IN  \E i \in 0..(Len(str) - Len(term)) :
           \A j \in 1..Len(term) : LowerChar(str[i + j]) = LowerChar(term[j])

Satisfies(t, term) == ContainsIgnoringCase(t.name, term) \/ ContainsIgnoringCase(t.to, term)

Matched == transitions # <<>> /\ searchStatus.type = "string"

C8_FirstMatchWins ==
    Matched =>
        IF \E i \in 1..Len(transitions) : Satisfies(transitions[i], searchStatus.val)
        THEN \E i \in 1..Len(transitions) :
                /\ match = Some(transitions[i])
                /\ Satisfies(transitions[i], searchStatus.val)
                /\ \A j \in 1..(i - 1) : ~Satisfies(transitions[j], searchStatus.val)
        ELSE match = None

C8_Witness ==
    /\ Matched
    /\ Len(transitions) = 2
    /\ transitions[1] # transitions[2]
    /\ Satisfies(transitions[1], searchStatus.val)
    /\ Satisfies(transitions[2], searchStatus.val)
    /\ transitions[1].name = None
    /\ match = Some(transitions[1])

\* C9: the search term is the merged alias map's value for the supplied term
\* when the term is a key of the map (the user's value on a key of both
\* sets), and the supplied term itself otherwise.
SuppliedTerm ==
    IF IsSome(arg1) /\ IsSome(RegexMatch(Val(arg1), TRUE)) THEN Val(arg2) ELSE Val(arg1)

MergedKeys == (DOMAIN DEFAULT_ALIASES) \cup (DOMAIN userAliases)
MergedValue(k) == IF k \in DOMAIN userAliases THEN userAliases[k] ELSE DEFAULT_ALIASES[k]

C9_AsClaimed ==
    searchStatus # JsUndefined =>
        searchStatus = IF SuppliedTerm \in MergedKeys
                       THEN JsString(MergedValue(SuppliedTerm))
                       ELSE JsString(SuppliedTerm)

\* C10: when no transition contains the search term, the command prints the
\* not-found line and the name of every available transition, in order, and
\* returns having made no gateway call but getTransitions.
NoneMatches ==
    /\ Matched
    /\ \A i \in 1..Len(transitions) : ~Satisfies(transitions[i], searchStatus.val)

C10_NoMatchReportsAndStops ==
    NoneMatches =>
        /\ pc = "done"
        /\ outcome = "returned"
        /\ Len(calls) = 1
        /\ calls[1].op = "getTransitions"
        /\ StatusLines = {}
        /\ \E k \in 1..Len(out) :
              /\ out[k] = NotFoundLine(searchStatus.val)
              /\ Len(out) = k + 1 + Len(transitions)
              /\ out[k + 1] = AvailableLine
              /\ \A i \in 1..Len(transitions) :
                    /\ out[k + 1 + i].kind = "Option"
                    /\ out[k + 1 + i].name = transitions[i].name

C10_Witness ==
    /\ NoneMatches
    /\ Len(transitions) = 2
    /\ transitions[1].name # transitions[2].name
    /\ pc = "done"

\* C11: with no user aliases, the term "review" matches a transition whose
\* destination status is "In Review" as well as one whose destination is
\* "Code Review".
ReviewDestinations == { Some(S_InReview), Some(S_CodeReview) }

C11_AsClaimed ==
    ( /\ userAliases = EmptyMap
      /\ searchStatus # JsUndefined
      /\ SuppliedTerm = S_review
      /\ Len(transitions) >= 1
      /\ transitions[1].to \in ReviewDestinations )
    => match = Some(transitions[1])

\* ===================================================================
\* resolveKey applied to every explicit input and branch answer
\* ===================================================================
MaxKeyStrLen == 4

\* a lowercase letter, an uppercase letter, the hyphen and a digit
KeyAlphabet == {"a", "B", "-", "1"}
KeyStrings == SeqsUpTo(KeyAlphabet, MaxKeyStrLen)

\* the status command is not running
StatusIdle ==
    /\ userAliases = EmptyMap
    /\ affectedFieldId = None
    /\ arg1 = None
    /\ arg2 = None
    /\ outcome = "running"
    /\ out = <<>>
    /\ calls = <<>>
    /\ finalKey = S_Empty
    /\ searchStatus = JsUndefined
    /\ transitions = <<>>
    /\ match = None
    /\ componentChoices = <<>>
    /\ finalValue = ""
    /\ customFieldId = ""
    /\ editPayloads = <<>>
    /\ idx = 0
    /\ updateSuccess = FALSE

InitResolveKey ==
    /\ StatusIdle
    /\ ReportIdle
    /\ creds = TRUE
    /\ gitQueried = FALSE
    /\ branch = None
    /\ pc = "resolveKey"
    /\ input \in {None} \cup { Some(s) : s \in KeyStrings }
    /\ result = None

\* what the version-control query can answer: failure (None), or a branch
\* name with no key, with a lowercase key only, with a key at its start, with
\* a key after a prefix and more digits, with two keys
BranchNames ==
    { <<"a", "a", "a">>,
      <<"a", "-", "1">>,
      <<"B", "-", "1">>,
      <<"a", "B", "-", "1", "1">>,
      <<"a", "/", "B", "B", "-", "1", "-", "a">>,
      <<"B", "-", "1", "1", "-", "B", "B", "-", "1">>,
      <<"1", "-", "B">> }

BranchAnswers == {None} \cup { Some(s) : s \in BranchNames }

\* one call resolveKey(input); the version-control query is made only when
\* the explicit input is not taken
ResolveKeyCall ==
    /\ pc = "resolveKey"
    /\ UNCHANGED <<env, report, outcome, calls, matching, rescue, input>>
    /\ \E b \in (IF resolveKey(input, None).queried THEN BranchAnswers ELSE {None}) :
          \E r \in {resolveKey(input, b)} :
              /\ gitQueried' = r.queried
              /\ branch' = b
              /\ out' = IF r.detected THEN <<DetectedLine(r.key)>> ELSE <<>>
              /\ result' = Some([ok |-> r.ok, key |-> r.key])
              /\ pc' = "resolved"

NextResolveKey == ResolveKeyCall

SpecResolveKey == InitResolveKey /\ [][NextResolveKey]_vars


\* ---------------------------------------------------- issue key vocabulary
\* the whole string is uppercase letters, a hyphen, digits
WellFormedKey(s) ==
    \E h \in 2..(Len(s) - 1) :
        /\ s[h] = "-"
        /\ \A i \in 1..(h - 1) : IsUpper(s[i])
        /\ \A i \in (h + 1)..Len(s) : IsDigit(s[i])

\* s with every lowercase letter replaced by its uppercase letter
Uppercased(s) == [i \in 1..Len(s) |-> IF IsLower(s[i]) THEN UpperChar(s[i]) ELSE s[i]]

\* a PROJECT-NUMBER string in any letter case
ValidKeyInput(s) == WellFormedKey(Uppercased(s))

\* the substring s[i..j] is a key
KeyAt(s, i, j) == 1 <= i /\ i <= j /\ j <= Len(s) /\ WellFormedKey(SubSeq(s, i, j))

ContainsKey(s) == \E i, j \in 1..Len(s) : KeyAt(s, i, j)

\* the first key substring: the leftmost start, all the digits that follow
FirstKey(s) ==
    LET i == CHOOSE k \in 1..Len(s) :
                 /\ \E j \in 1..Len(s) : KeyAt(s, k, j)
                 /\ \A l \in 1..(k - 1) : \A j \in 1..Len(s) : ~KeyAt(s, l, j)
        j == CHOOSE k \in 1..Len(s) :
                 KeyAt(s, i, k) /\ \A l \in (k + 1)..Len(s) : ~KeyAt(s, i, l)
    IN  SubSeq(s, i, j)

Resolved == pc = "resolved" /\ IsSome(result)
Returned(k) == result = Some([ok |-> TRUE, key |-> k])
KeyNotFound == result = Some([ok |-> FALSE, key |-> S_Empty])

\* C12: for every explicit input that is a PROJECT-NUMBER string in any letter
\* case, resolveKey returns it uppercased, emits nothing and does not query
\* the branch.
C12_ValidInputUppercased ==
    (Resolved /\ IsSome(input) /\ ValidKeyInput(Val(input)))
    => /\ Returned(Uppercased(Val(input)))
       /\ ~gitQueried
       /\ out = <<>>

C12_Witness ==
    /\ Resolved
    /\ input = Some(<<"a", "B", "-", "1">>)
    /\ Returned(<<"A", "B", "-", "1">>)
    /\ ~gitQueried

\* C13: with no explicit input and a branch name that contains a key,
\* resolveKey returns the first key substring and emits the notification
\* naming it; nothing is emitted when the key came from the explicit input.
C13_BranchKeyDetected ==
    Resolved =>
       /\ (input = None /\ IsSome(branch) /\ ContainsKey(Val(branch)))
          => /\ Returned(Uppercased(FirstKey(Val(branch))))
             /\ out = <<DetectedLine(FirstKey(Val(branch)))>>
       /\ (IsSome(input) /\ ~gitQueried) => out = <<>>

C13_Witness ==
    /\ Resolved
    /\ input = None
    /\ branch = Some(<<"B", "-", "1", "1", "-", "B", "B", "-", "1">>)
    /\ Returned(<<"B", "-", "1", "1">>)
    /\ out = <<DetectedLine(<<"B", "-", "1", "1">>)>>

\* an explicit input the resolution can use: it holds a key in some letter case
UsableInput(i) == IsSome(i) /\ ContainsKey(Uppercased(Val(i)))

C15_AsClaimed ==
    (Resolved /\ IsSome(input) /\ ~ValidKeyInput(Val(input)))
    => /\ gitQueried
       /\ IF IsSome(branch) /\ ContainsKey(Val(branch))
          THEN Returned(FirstKey(Val(branch)))
          ELSE KeyNotFound

\* C16: every key resolveKey returns is a well-formed issue key.
C16_AsClaimed ==
    (Resolved /\ IsSome(result) /\ Val(result).ok) => WellFormedKey(Val(result).key)


\* ===================================================================
\* calculateTotalSeconds applied to every list of worklog entries
\* ===================================================================
MaxLogs == 3

\* a worklog entry is [author, started, timeSpentSeconds]: author the
\* optional log.author?.accountId, started the optional instant that
\* new Date(log.started) denotes, timeSpentSeconds the optional duration
Worklog(a, s, d) == [author |-> a, started |-> s, timeSpentSeconds |-> d]

MyId == "user-123"
OtherId == "other-user"

\* durations are distinct powers of two times a minute, so a total tells
\* which entries were added
LogUniverse ==
    { Worklog(Some(MyId), Some(1), Some(60)),
      Worklog(Some(MyId), Some(2), Some(120)),
      Worklog(Some(MyId), Some(3), Some(240)),
      Worklog(Some(MyId), None, Some(480)),
      Worklog(Some(MyId), Some(3), None),
      Worklog(Some(OtherId), Some(3), Some(960)),
      Worklog(None, Some(3), Some(1920)) }

StartDates == {2, 3}

\* log.timeSpentSeconds || 0
SecondsOrZero(d) == IF IsSome(d) /\ Val(d) # 0 THEN Val(d) ELSE 0

\* what one run of the forEach callback adds to total, with > for >=
LogSecondsStrict(log, myAccountId, startDate) ==
    IF log.author # Some(myAccountId) THEN 0
    ELSE IF IsSome(log.started) /\ Val(log.started) > startDate
         THEN SecondsOrZero(log.timeSpentSeconds)
         ELSE 0

\* what one run of the forEach callback adds to total
LogSeconds(log, myAccountId, startDate) ==
    IF log.author # Some(myAccountId) THEN 0
    ELSE IF IsSome(log.started) /\ Val(log.started) >= startDate
         THEN SecondsOrZero(log.timeSpentSeconds)
         ELSE 0

\* logs.forEach from entry i on, total being the running sum
RECURSIVE ForEachLog(_, _, _, _, _)
ForEachLog(logs, i, total, myAccountId, startDate) ==
    IF i > Len(logs) THEN total
    ELSE ForEachLog(logs, i + 1, total + LogSeconds(logs[i], myAccountId, startDate),
                    myAccountId, startDate)

calculateTotalSeconds(logs, myAccountId, startDate) ==
    ForEachLog(logs, 1, 0, myAccountId, startDate)

InitTotal ==
    /\ StatusIdle
    /\ ReportIdle
    /\ creds = TRUE
    /\ gitQueried = FALSE
    /\ branch = None
    /\ pc = "calculateTotalSeconds"
    /\ \E logs \in SeqsUpTo(LogUniverse, MaxLogs), d \in StartDates :
          input = [logs |-> logs, myAccountId |-> MyId, startDate |-> d]
    /\ result = None

CalculateTotalCall ==
    /\ pc = "calculateTotalSeconds"
    /\ result' = Some(calculateTotalSeconds(input.logs, input.myAccountId, input.startDate))
    /\ pc' = "totalled"
    /\ UNCHANGED <<env, report, git, outcome, out, calls, matching, rescue, input>>

NextTotal == CalculateTotalCall

SpecTotal == InitTotal /\ [][NextTotal]_vars

\* the entries that count: written by userId, with a start timestamp that
\* is on or after startDate
Counted(log, userId, startDate) ==
    /\ IsSome(log.author) /\ Val(log.author) = userId
    /\ IsSome(log.started)
    /\ ~(Val(log.started) < startDate)

Duration(log) == IF IsSome(log.timeSpentSeconds) THEN Val(log.timeSpentSeconds) ELSE 0

\* sum of the durations of the entries of logs at the positions in P
RECURSIVE SumAt(_, _)
SumAt(logs, P) ==
    IF P = {} THEN 0
    ELSE LET p == CHOOSE q \in P : TRUE
         IN  Duration(logs[p]) + SumAt(logs, P \ {p})

CountedPositions(logs, userId, startDate) ==
    { p \in 1..Len(logs) : Counted(logs[p], userId, startDate) }

\* C17: calculateTotalSeconds returns the sum of the durations (a missing one
\* counting 0) of exactly the entries written by userId that have a start
\* timestamp on or after startDate; it returns for every list of entries.
C17_SumOfCountedEntries ==
    (pc = "totalled")
    => result = Some(SumAt(input.logs,
                           CountedPositions(input.logs, input.myAccountId, input.startDate)))

\* an entry exactly at startDate is counted next to an entry before it, an
\* entry of another author and an entry with no start timestamp
C17_Witness ==
    /\ pc = "totalled"
    /\ input.startDate = 2
    /\ input.logs = << Worklog(Some(MyId), Some(1), Some(60)),
                       Worklog(Some(MyId), Some(2), Some(120)),
                       Worklog(None, Some(3), Some(1920)) >>
    /\ result = Some(120)


\* ===================================================================
\* the two formatTime functions applied to every number of seconds
\* ===================================================================
MaxMinutes == 2970

\* whole minutes up to MaxMinutes, with and without seconds left over
SecondsInputs == { 60 * mins + r : mins \in 0..MaxMinutes, r \in {0, 30, 59} }

DecimalDigits == <<"0", "1", "2", "3", "4", "5", "6", "7", "8", "9">>

\* `${n}` for a non-negative integer n
RECURSIVE NumStr(_)
NumStr(n) ==
    IF n < 10 THEN <<DecimalDigits[n + 1]>>
    ELSE NumStr(n \div 10) \o <<DecimalDigits[(n % 10) + 1]>>

\* `${n}w`, `${n}d`, `${n}h`, `${n}m`
Part(n, unit) == NumStr(n) \o <<unit>>

\* parts.join(' ')
RECURSIVE Join(_)
Join(parts) ==
    IF Len(parts) = 0 THEN <<>>
    ELSE IF Len(parts) = 1 THEN parts[1]
    ELSE parts[1] \o <<" ">> \o Join(Tail(parts))

\* parts.push(x) when cond
PushIf(parts, cond, x) == IF cond THEN Append(parts, x) ELSE parts

formatTimeAlwaysMinutes(seconds) ==
    LET totalMinutes == seconds \div 60
        m == totalMinutes % 60
        totalHours == totalMinutes \div 60
        totalDays == totalHours \div 8
        w == totalDays \div 5
        d == totalDays % 5
        h == totalHours % 8
        p1 == PushIf(<<>>, w > 0, Part(w, "w"))
        p2 == PushIf(p1, d > 0, Part(d, "d"))
        p3 == PushIf(p2, h > 0, Part(h, "h"))
        p4 == PushIf(p3, TRUE, Part(m, "m"))
    IN  Join(p4)

\* formatTime of utils: 8h = 1d, 5d = 1w
formatTime(seconds) ==
    LET totalMinutes == seconds \div 60
        m == totalMinutes % 60
        totalHours == totalMinutes \div 60
        totalDays == totalHours \div 8
        w == totalDays \div 5
        d == totalDays % 5
        h == totalHours % 8
        p1 == PushIf(<<>>, w > 0, Part(w, "w"))
        p2 == PushIf(p1, d > 0, Part(d, "d"))
        p3 == PushIf(p2, h > 0, Part(h, "h"))
        p4 == PushIf(p3, m > 0 \/ Len(p3) = 0, Part(m, "m"))
    IN  Join(p4)

reportFormatTimeTotalMinutes(seconds) ==
    LET h == seconds \div 3600
        m == seconds \div 60
    IN  NumStr(h) \o <<"h", " ">> \o NumStr(m) \o <<"m">>

\* formatTime of the report command: `${h}h ${m}m`
reportFormatTime(seconds) ==
    LET h == seconds \div 3600
        m == (seconds % 3600) \div 60
    IN  NumStr(h) \o <<"h", " ">> \o NumStr(m) \o <<"m">>

InitFormat ==
    /\ StatusIdle
    /\ ReportIdle
    /\ creds = TRUE
    /\ gitQueried = FALSE
    /\ branch = None
    /\ pc = "formatTime"
    /\ input \in SecondsInputs
    /\ result = None

FormatTimeCall ==
    /\ pc = "formatTime"
    /\ result' = Some(formatTime(input))
    /\ pc' = "formatted"
    /\ UNCHANGED <<env, report, git, outcome, out, calls, matching, rescue, input>>

ReportFormatTimeCall ==
    /\ pc = "formatTime"
    /\ result' = Some(reportFormatTime(input))
    /\ pc' = "reportFormatted"
    /\ UNCHANGED <<env, report, git, outcome, out, calls, matching, rescue, input>>

NextFormat == FormatTimeCall \/ ReportFormatTimeCall

SpecFormat == InitFormat /\ [][NextFormat]_vars

\* the four components, largest unit first
WorkComponents(seconds) ==
    LET totalMinutes == seconds \div 60
    IN  << [n |-> totalMinutes \div 2400, unit |-> "w"],
           [n |-> (totalMinutes \div 480) % 5, unit |-> "d"],
           [n |-> (totalMinutes \div 60) % 8, unit |-> "h"],
           [n |-> totalMinutes % 60, unit |-> "m"] >>

NonZero(c) == c.n # 0

\* the components rendered and separated by single spaces
RECURSIVE Rendered(_)
Rendered(cs) ==
    IF cs = <<>> THEN <<>>
    ELSE NumStr(Head(cs).n) \o <<Head(cs).unit>>
         \o (IF Tail(cs) = <<>> THEN <<>> ELSE <<" ">> \o Rendered(Tail(cs)))

Formatted(seconds, text) == pc = "formatted" /\ input = seconds /\ result = Some(text)

\* C19: work-tracking formatTime outputs the non-zero components among
\* w, d, h, m (8 hours a day, 5 days a week) in that order separated by single
\* spaces, "0m" when all are zero; 3600 is "1h", 28800 "1d", 144000 "1w",
\* 178200 "1w 1d 1h 30m".
C19_WorkTrackingFormat ==
    (pc = "formatted")
    => /\ LET shown == SelectSeq(WorkComponents(input), NonZero)
          IN  result = Some(IF shown = <<>> THEN <<"0", "m">> ELSE Rendered(shown))
       /\ input = 3600 => result = Some(<<"1", "h">>)
       /\ input = 28800 => result = Some(<<"1", "d">>)
       /\ input = 144000 => result = Some(<<"1", "w">>)
       /\ input = 178200
          => result = Some(<<"1", "w", " ", "1", "d", " ", "1", "h", " ", "3", "0", "m">>)
       /\ input = 0 => result = Some(<<"0", "m">>)

C19_Witness ==
    Formatted(178200, <<"1", "w", " ", "1", "d", " ", "1", "h", " ", "3", "0", "m">>)

ClockFormatted(seconds, text) ==
    pc = "reportFormatted" /\ input = seconds /\ result = Some(text)

\* C20: clock-notation formatting yields "{h}h {m}m" with h = seconds div 3600
\* and m = (seconds mod 3600) div 60, both always shown, m below 60; 3600 is
\* "1h 0m", 5400 "1h 30m", 450 "0h 7m".
C20_ClockFormat ==
    (pc = "reportFormatted")
    => /\ \E h \in 0..(input \div 3600), m \in 0..59 :
             /\ h = input \div 3600
             /\ m = (input % 3600) \div 60
             /\ result = Some(NumStr(h) \o <<"h", " ">> \o NumStr(m) \o <<"m">>)
       /\ input = 3600 => result = Some(<<"1", "h", " ", "0", "m">>)
       /\ input = 5400 => result = Some(<<"1", "h", " ", "3", "0", "m">>)
       /\ input = 450 => result = Some(<<"0", "h", " ", "7", "m">>)

C20_Witness == ClockFormatted(450, <<"0", "h", " ", "7", "m">>)


\* ===================================================================
\* the report command
\* ===================================================================
MaxIssues == 3

\* an issue of the search result is [logs, total, full]: logs the embedded
\* issue.fields.worklog?.worklogs || [], total the issue.fields.worklog?.total
\* || 0, full the optional worklogs of the getIssueWorklog answer
Issue(logs, total, full) == [logs |-> logs, total |-> total, full |-> full]

IssueUniverse ==
    { Issue(<<Worklog(Some(MyId), Some(2), Some(120))>>, 1, None),
      Issue(<<Worklog(Some(MyId), Some(3), Some(240))>>, 2,
            Some(<<Worklog(Some(MyId), Some(3), Some(240)),
                   Worklog(Some(MyId), Some(1), Some(60))>>)),
      Issue(<<>>, 3,
            Some(<<Worklog(Some(MyId), Some(3), Some(3600)),
                   Worklog(Some(OtherId), Some(3), Some(960)),
                   Worklog(Some(MyId), None, Some(480))>>)),
      Issue(<<Worklog(Some(MyId), Some(3), Some(1800))>>, 2, None) }

FetchingLine        == Line("log", "Fetching", "", None, {})
NoWorklogsLine      == Line("log", "NoWorklogs", "", None, {})
TotalLine(text)     == Line("log", "Total", "", Some(text), {})
ReportErrorLine(msg) == Line("error", "ErrorGeneratingReport", msg, None, {})

\* catch (error) of the report command
ReportCatch(msg) == Finish(<<ReportErrorLine(msg)>>)

\* what the report's forEach callback adds for one entry: new Date(undefined)
\* is an invalid date, which is not >= startDate
ReportLogSeconds(log, myAccountId, startDate) ==
    IF log.author # Some(myAccountId) THEN 0
    ELSE IF IsSome(log.started) /\ Val(log.started) >= startDate
         THEN SecondsOrZero(log.timeSpentSeconds)
         ELSE 0

\* logs.forEach of the report from entry i on
RECURSIVE ReportForEach(_, _, _, _)
ReportForEach(logs, i, total, startDate) ==
    IF i > Len(logs) THEN total
    ELSE ReportForEach(logs, i + 1, total + ReportLogSeconds(logs[i], MyId, startDate),
                       startDate)

\* totalLogs > logs.length
Truncated(issue) == issue.total > Len(issue.logs)

\* the callbacks of issues.map from issue i on, each up to its first await:
\* an issue that is not truncated is summed at once
RECURSIVE MapSync(_, _, _, _)
MapSync(is, i, total, startDate) ==
    IF i > Len(is) THEN total
    ELSE MapSync(is, i + 1,
                 IF Truncated(is[i]) THEN total
                 ELSE ReportForEach(is[i].logs, 1, total, startDate),
                 startDate)

InitReport ==
    /\ StatusIdle
    /\ ReportIdle
    /\ creds \in BOOLEAN
    /\ gitQueried = FALSE
    /\ branch = None
    /\ pc = "report"
    /\ \E d \in StartDates : input = [startDate |-> d]
    /\ result = None

\* index.ts 370-387: client, current user, start date
ReportStart ==
    /\ pc = "report"
    /\ UNCHANGED <<env, git, calls, matching, rescue, util, report>>
    /\ IF ~creds
       THEN ReportCatch("MISSING_CREDS")
       ELSE \E ok \in BOOLEAN :
               IF ok
               THEN /\ out' = Append(out, FetchingLine)
                    /\ pc' = "search"
                    /\ UNCHANGED outcome
               ELSE ReportCatch(GatewayError)

\* a search whose callbacks sum the embedded entries of every issue, truncated
\* or not, before any fetch
ReportSearchSumEmbedded ==
    /\ pc = "search"
    /\ UNCHANGED <<env, git, calls, matching, rescue, util, completed>>
    /\ \/ ReportCatch(GatewayError) /\ UNCHANGED <<issues, pending, totalSeconds>>
       \/ Finish(<<NoWorklogsLine>>) /\ UNCHANGED <<issues, pending, totalSeconds>>
       \/ \E is \in SeqsUpTo(IssueUniverse, MaxIssues) :
             /\ Len(is) > 0
             /\ issues' = is
             /\ pending' = { i \in 1..Len(is) : Truncated(is[i]) }
             /\ totalSeconds' = MapSync([i \in 1..Len(is) |-> Issue(is[i].logs, 0, None)],
                                        1, 0, input.startDate)
             /\ pc' = "fetching"
             /\ UNCHANGED <<out, outcome>>

\* index.ts 389-414: the search answers; every callback of issues.map runs up
\* to its first await
ReportSearch ==
    /\ pc = "search"
    /\ UNCHANGED <<env, git, calls, matching, rescue, util, completed>>
    /\ \/ ReportCatch(GatewayError) /\ UNCHANGED <<issues, pending, totalSeconds>>
       \/ Finish(<<NoWorklogsLine>>) /\ UNCHANGED <<issues, pending, totalSeconds>>
       \/ \E is \in SeqsUpTo(IssueUniverse, MaxIssues) :
             /\ Len(is) > 0
             /\ issues' = is
             /\ pending' = { i \in 1..Len(is) : Truncated(is[i]) }
             /\ totalSeconds' = MapSync(is, 1, 0, input.startDate)
             /\ pc' = "fetching"
             /\ UNCHANGED <<out, outcome>>

FetchResolveOverwrite(i) ==
    /\ i \in pending
    /\ pc \in {"fetching", "rejected"}
    /\ LET logs == IF IsSome(issues[i].full) THEN Val(issues[i].full) ELSE <<>>
       IN  totalSeconds' = ReportForEach(logs, 1, 0, input.startDate)
    /\ pending' = pending \ {i}
    /\ completed' = Append(completed, i)
    /\ UNCHANGED <<env, git, pc, outcome, out, calls, matching, rescue, util, issues>>

\* index.ts 406-418: the getIssueWorklog of issue i answers; its callback
\* resumes and adds its entries to totalSeconds
FetchResolve(i) ==
    /\ i \in pending
    /\ pc \in {"fetching", "rejected"}
    /\ LET logs == IF IsSome(issues[i].full) THEN Val(issues[i].full) ELSE <<>>
       IN  totalSeconds' = ReportForEach(logs, 1, totalSeconds, input.startDate)
    /\ pending' = pending \ {i}
    /\ completed' = Append(completed, i)
    /\ UNCHANGED <<env, git, pc, outcome, out, calls, matching, rescue, util, issues>>

\* the getIssueWorklog of issue i rejects: the first rejection rejects
\* Promise.all and the catch prints; the other fetches stay in flight
FetchReject(i) ==
    /\ i \in pending
    /\ pc \in {"fetching", "rejected"}
    /\ pending' = pending \ {i}
    /\ completed' = Append(completed, i)
    /\ UNCHANGED <<env, git, calls, matching, rescue, util, issues, totalSeconds>>
    /\ IF pc = "fetching"
       THEN /\ out' = Append(out, ReportErrorLine(GatewayError))
            /\ outcome' = "returned"
            /\ pc' = "rejected"
       ELSE UNCHANGED <<pc, out, outcome>>

\* index.ts 422-429: every callback has finished
ReportPrint ==
    /\ pc = "fetching"
    /\ pending = {}
    /\ out' = Append(out, TotalLine(reportFormatTime(totalSeconds)))
    /\ pc' = "reported"
    /\ outcome' = "returned"
    /\ UNCHANGED <<env, git, calls, matching, rescue, util, report>>

NextReport ==
    \/ ReportStart
    \/ ReportSearch
    \/ \E i \in 1..MaxIssues : FetchResolve(i)
    \/ \E i \in 1..MaxIssues : FetchReject(i)
    \/ ReportPrint

SpecReport == InitReport /\ [][NextReport]_vars


\* ------------------------------------------------------- report vocabulary
\* the entries of an issue that count: the fetched ones when the embedded
\* list is truncated
EffectiveLogs(issue) ==
    IF issue.total > Len(issue.logs)
    THEN (IF IsSome(issue.full) THEN Val(issue.full) ELSE <<>>)
    ELSE issue.logs

\* the partial sum of one issue
PartialSum(issue, startDate) ==
    SumAt(EffectiveLogs(issue), CountedPositions(EffectiveLogs(issue), MyId, startDate))

RECURSIVE SumOfPartials(_, _)
SumOfPartials(is, startDate) ==
    IF is = <<>> THEN 0
    ELSE PartialSum(Head(is), startDate) + SumOfPartials(Tail(is), startDate)

\* the completion of a fetch does not write totalSeconds
NoSharedWrite == (pending' # pending) => (totalSeconds' = totalSeconds)

\* C18 (amended): the parallel fetches all add to the one totalSeconds
\* accumulator as they complete, and the reported total is the sum of the
\* issues' partial sums for every order in which the fetches complete.
C18_TotalIndependentOfOrder ==
    (pc = "reported")
    => /\ pending = {}
       /\ totalSeconds = SumOfPartials(issues, input.startDate)
       /\ Last(out) = TotalLine(reportFormatTime(SumOfPartials(issues, input.startDate)))

\* two fetches that both add time complete against the order of the issues
C18_Witness ==
    /\ pc = "reported"
    /\ Len(completed) = 2
    /\ completed[1] > completed[2]
    /\ PartialSum(issues[completed[1]], input.startDate) > 0
    /\ PartialSum(issues[completed[2]], input.startDate) > 0
    /\ PartialSum(issues[completed[1]], input.startDate)
         # PartialSum(issues[completed[2]], input.startDate)

\* C18: there is no shared mutable state across the parallel fetches (no
\* fetch writes the total when it completes; the partial sums are combined
\* afterwards), and the reported total is the same for every completion order.
C18_AsClaimed == [][NoSharedWrite]_vars /\ []C18_TotalIndependentOfOrder


\* ===================================================================
\* the two extractText functions applied to every small rich-text tree
\* ===================================================================
MaxChildren == 2

\* a node is null/undefined ("absent"), a string, an object with an optional
\* string text field and an optional content array, or any other value
\* (a number, a boolean, an object whose content is not an array)
AbsentNode == [kind |-> "absent"]
StringNode(s) == [kind |-> "string", val |-> s]
OtherNode == [kind |-> "other"]
ObjectNode(text, content) == [kind |-> "object", text |-> text, content |-> content]

LeafNodes ==
    { AbsentNode, StringNode(<<"s">>), OtherNode,
      ObjectNode(Some(<<"a">>), None),
      ObjectNode(Some(<<>>), None),
      ObjectNode(None, None) }

\* objects whose children are leaves
ParagraphNodes ==
    { ObjectNode(t, Some(c)) : t \in {None, Some(<<"b">>), Some(<<>>)},
                               c \in SeqsUpTo(LeafNodes, MaxChildren) }

\* objects with a paragraph as first child
DocNodes ==
    { ObjectNode(None, Some(<<p>> \o rest)) : p \in ParagraphNodes,
                                              rest \in SeqsUpTo(LeafNodes, 1) }

NodeUniverse == LeafNodes \cup ParagraphNodes \cup DocNodes

\* Array.prototype.join(sep) on strings
RECURSIVE JoinSep(_, _)
JoinSep(parts, sep) ==
    IF Len(parts) = 0 THEN <<>>
    ELSE IF Len(parts) = 1 THEN parts[1]
    ELSE parts[1] \o sep \o JoinSep(Tail(parts), sep)

JoinContentSpaced(texts) == JoinSep(texts, <<" ">>)

\* .join('') of extractText (utils)
JoinContent(texts) == JoinSep(texts, <<>>)

\* extractText of utils
RECURSIVE extractText(_)
extractText(node) ==
    IF node.kind = "absent" \/ (node.kind = "string" /\ node.val = <<>>) THEN <<>>
    ELSE IF node.kind = "string" THEN node.val
    ELSE IF node.kind = "other" THEN <<>>
    ELSE IF IsSome(node.text) THEN Val(node.text)
    ELSE IF IsSome(node.content)
         THEN JoinContent([i \in 1..Len(Val(node.content)) |->
                              extractText(Val(node.content)[i])])
         ELSE <<>>

\* extractText of the worklogs command: node.text is tested for truthiness
\* and the children are joined with ' '
RECURSIVE worklogsExtractText(_)
worklogsExtractText(node) ==
    IF node.kind = "absent" \/ (node.kind = "string" /\ node.val = <<>>) THEN <<>>
    ELSE IF node.kind = "string" THEN node.val
    ELSE IF node.kind = "other" THEN <<>>
    ELSE IF IsSome(node.text) /\ Val(node.text) # <<>> THEN Val(node.text)
    ELSE IF IsSome(node.content)
         THEN JoinSep([i \in 1..Len(Val(node.content)) |->
                          worklogsExtractText(Val(node.content)[i])], <<" ">>)
         ELSE <<>>

InitExtract ==
    /\ StatusIdle
    /\ ReportIdle
    /\ creds = TRUE
    /\ gitQueried = FALSE
    /\ branch = None
    /\ pc = "extractText"
    /\ input \in NodeUniverse
    /\ result = None

ExtractTextCall ==
    /\ pc = "extractText"
    /\ result' = Some(extractText(input))
    /\ pc' = "extracted"
    /\ UNCHANGED <<env, report, git, outcome, out, calls, matching, rescue, input>>

WorklogsExtractTextCall ==
    /\ pc = "extractText"
    /\ result' = Some(worklogsExtractText(input))
    /\ pc' = "worklogsExtracted"
    /\ UNCHANGED <<env, report, git, outcome, out, calls, matching, rescue, input>>

NextExtract == ExtractTextCall \/ WorklogsExtractTextCall

SpecExtract == InitExtract /\ [][NextExtract]_vars

\* ------------------------------------------------------ rich-text vocabulary
\* the flat text of a tree: a string is itself, a node with a text field is
\* that text, a node with children is its children's flat texts one after
\* the other, anything else is empty
RECURSIVE FlatText(_)
RECURSIVE FlatTexts(_)
FlatTexts(nodes) ==
    IF nodes = <<>> THEN <<>> ELSE FlatText(Head(nodes)) \o FlatTexts(Tail(nodes))

FlatText(node) ==
    CASE node.kind = "string" -> node.val
      [] node.kind = "object" /\ IsSome(node.text) -> Val(node.text)
      [] node.kind = "object" /\ ~IsSome(node.text) /\ IsSome(node.content)
            -> FlatTexts(Val(node.content))
      [] OTHER -> <<>>

\* C21: extractText returns, for every tree, the empty string for an absent
\* node, a string unchanged, the text of a node with a text field (children
\* or not), else its children's texts concatenated in order with no
\* separator, and the empty string for any other shape.
C21_FlatTextNoSeparator ==
    (pc = "extracted") => result = Some(FlatText(input))

\* a document whose paragraph holds two text leaves and a node with both a
\* text field and children
C21_Witness ==
    /\ pc = "extracted"
    /\ input = ObjectNode(None, Some(<< ObjectNode(None,
                                           Some(<< ObjectNode(Some(<<"a">>), None),
                                                   StringNode(<<"s">>) >>)),
                                        ObjectNode(Some(<<"a">>), None) >>))
    /\ result = Some(<<"a", "s", "a">>)

\* C30: the worklogs command's extractText returns the same string as the
\* exported extractText for every node.
C30_AsClaimed ==
    (pc = "worklogsExtracted") => result = Some(extractText(input))


\* ===================================================================
\* selfUpdate
\* ===================================================================
\* what execSync throws when a command fails: an Error with a message, or a
\* value that is not an Error
ExecErrors ==
    { [isError |-> TRUE, message |-> m] :
          m \in { "Git conflict",
                  "Command failed: git pull origin main",
                  "Command failed: npm install",
                  "spawnSync /bin/sh ENOENT",
                  "spawnSync /bin/sh ETIMEDOUT",
                  "" } }
    \cup { [isError |-> FALSE, message |-> ""] }

\* the outcome of a command: None when it returns, else what it throws
ExecOutcomes == {None} \cup { Some(e) : e \in ExecErrors }

S_gitPull == "git pull origin main"
S_npmInstall == "npm install"

Exec(command, thrown) == [op |-> "execSync", command |-> command, ok |-> ~IsSome(thrown)]

CheckingLine       == Line("log", "CheckingForUpdates", "", None, {})
InstallingLine     == Line("log", "Installing", "", None, {})
UpdateCompleteLine == Line("log", "UpdateComplete", "", None, {})

\* `Update failed: ${error instanceof Error ? error.message : 'Unknown error'}`
UpdateFailed(e) ==
    [thrown |-> TRUE,
     message |-> <<"Update failed: ", IF e.isError THEN e.message ELSE "Unknown error">>]

UpdateReturned == [thrown |-> FALSE, message |-> <<>>]

InitUpdate ==
    /\ StatusIdle
    /\ ReportIdle
    /\ creds = TRUE
    /\ gitQueried = FALSE
    /\ branch = None
    /\ pc = "selfUpdate"
    /\ \E p \in ExecOutcomes, n \in ExecOutcomes : input = [pull |-> p, install |-> n]
    /\ result = None

GitPullIgnoreFailure ==
    /\ pc = "selfUpdate"
    /\ out' = out \o <<CheckingLine>>
    /\ calls' = Append(calls, Exec(S_gitPull, input.pull))
    /\ pc' = "npmInstall"
    /\ UNCHANGED <<result, outcome>>
    /\ UNCHANGED <<env, report, git, matching, rescue, input>>

\* selfUpdate.ts 14-15: 'Checking for updates...', execSync('git pull origin main')
GitPull ==
    /\ pc = "selfUpdate"
    /\ out' = out \o <<CheckingLine>>
    /\ calls' = Append(calls, Exec(S_gitPull, input.pull))
    /\ IF IsSome(input.pull)
       THEN /\ result' = Some(UpdateFailed(Val(input.pull)))
            /\ outcome' = "uncaught"
            /\ pc' = "updateFailed"
       ELSE /\ pc' = "npmInstall"
            /\ UNCHANGED <<result, outcome>>
    /\ UNCHANGED <<env, report, git, matching, rescue, input>>

\* selfUpdate.ts 17-22: 'Installing ...', execSync('npm install'), 'Update complete!'
NpmInstall ==
    /\ pc = "npmInstall"
    /\ calls' = Append(calls, Exec(S_npmInstall, input.install))
    /\ IF IsSome(input.install)
       THEN /\ out' = out \o <<InstallingLine>>
            /\ result' = Some(UpdateFailed(Val(input.install)))
            /\ outcome' = "uncaught"
            /\ pc' = "updateFailed"
       ELSE /\ out' = out \o <<InstallingLine, UpdateCompleteLine>>
            /\ result' = Some(UpdateReturned)
            /\ outcome' = "returned"
            /\ pc' = "updated"
    /\ UNCHANGED <<env, report, git, matching, rescue, input>>

NextUpdate == GitPull \/ NpmInstall

SpecUpdate == InitUpdate /\ [][NextUpdate]_vars

\* ---------------------------------------------------------- update vocabulary
Commands == [i \in 1..Len(calls) |-> calls[i].command]

\* the error message of what the failing command threw
FailureMessage(o) == IF Val(o).isError THEN Val(o).message ELSE "Unknown error"

\* C22: selfUpdate runs 'git pull origin main' and then 'npm install' and
\* nothing else; 'npm install' runs only after the pull returned without
\* error; when a command fails selfUpdate throws 'Update failed: ' followed
\* by that command's error message.
C22_PullThenInstall ==
    (pc \in {"selfUpdate", "npmInstall", "updated", "updateFailed"})
    => /\ Commands \in {<<>>, <<S_gitPull>>, <<S_gitPull, S_npmInstall>>}
       /\ Len(calls) = 2 => calls[1].ok
       /\ pc = "updated"
          => /\ Commands = <<S_gitPull, S_npmInstall>>
             /\ \A i \in 1..2 : calls[i].ok
             /\ result = Some(UpdateReturned)
       /\ (pc = "updateFailed" /\ IsSome(input.pull))
          => /\ Commands = <<S_gitPull>>
             /\ result = Some([thrown |-> TRUE,
                               message |-> <<"Update failed: ", FailureMessage(input.pull)>>])
       /\ (pc = "updateFailed" /\ ~IsSome(input.pull))
          => /\ Commands = <<S_gitPull, S_npmInstall>>
             /\ result = Some([thrown |-> TRUE,
                               message |-> <<"Update failed: ", FailureMessage(input.install)>>])
       /\ pc \in {"updated", "updateFailed"} => (pc = "updateFailed" <=> ~Last(calls).ok)

C22_Witness ==
    /\ pc = "updateFailed"
    /\ input.pull = Some([isError |-> TRUE, message |-> "Git conflict"])
    /\ Commands = <<S_gitPull>>
    /\ result = Some([thrown |-> TRUE, message |-> <<"Update failed: ", "Git conflict">>])


\* ===================================================================
\* formatField applied to every small field value
\* ===================================================================
MaxItems == 2

\* a field value is [type, val]; a text is a sequence of pieces (strings and
\* digit characters), the empty string being the empty sequence
JsNull == [type |-> "null", val |-> <<>>]
JsNumber(n) == [type |-> "number", val |-> n]
JsBoolean(b) == [type |-> "boolean", val |-> b]
JsArray(items) == [type |-> "array", val |-> items]
JsObject(fields) == [type |-> "object", val |-> fields]

\* the keys formatField looks at, fields.summary written "summary", and one
\* key it does not know, in the order the object literal lists them
FieldKeys ==
    <<"originalEstimate", "timeSpent", "remainingEstimate", "name",
      "displayName", "key", "summary", "value", "random">>

FieldValues ==
    [originalEstimate |-> "8h", timeSpent |-> "2h", remainingEstimate |-> "6h",
     name |-> "In Progress", displayName |-> "John Doe", key |-> "PROJ-123",
     summary |-> "Login Bug", value |-> "High Impact", random |-> "data"]

\* the same with an empty time spent and an empty summary
FieldValuesEmpty ==
    [FieldValues EXCEPT !.timeSpent = "", !.summary = ""]

FieldObjects ==
    { JsObject([k \in K |-> vals[k]]) :
          K \in SUBSET { FieldKeys[i] : i \in 1..Len(FieldKeys) },
          vals \in {FieldValues, FieldValuesEmpty} }

FieldPrimitives ==
    { JsNull, JsUndefined, JsString("Apple"), JsString(""), JsNumber(123), JsNumber(0),
      JsBoolean(TRUE) }

\* what the arrays hold: primitives, objects with at most one key, an array
FieldItems ==
    FieldPrimitives
    \cup { o \in FieldObjects : Cardinality(DOMAIN o.val) <= 1 }
    \cup { JsArray(<<JsString("Apple"), JsNumber(123)>>) }

FieldUniverse ==
    FieldPrimitives \cup FieldObjects
    \cup { JsArray(items) : items \in SeqsUpTo(FieldItems, MaxItems) }

\* a string as a text
Piece(s) == IF s = "" THEN <<>> ELSE <<s>>

Has(value, k) == k \in DOMAIN value.val

\* a property that is present and truthy
TruthyField(value, k) == Has(value, k) /\ value.val[k] # ""

\* isTimeTracking
isTimeTracking(value) ==
    Has(value, "originalEstimate") \/ Has(value, "timeSpent") \/ Has(value, "remainingEstimate")

\* the time-tracking parts joined with ' | ' (colours left out)
formatTimeTracking(value) ==
    LET p1 == PushIf(<<>>, TruthyField(value, "originalEstimate"),
                     <<"Est:", " ">> \o Piece(value.val["originalEstimate"]))
        p2 == PushIf(p1, TruthyField(value, "timeSpent"),
                     <<"Spent:", " ">> \o Piece(value.val["timeSpent"]))
        p3 == PushIf(p2, TruthyField(value, "remainingEstimate"),
                     <<"Rem:", " ">> \o Piece(value.val["remainingEstimate"]))
    IN  JoinSep(p3, <<" | ">>)

\* one "key":"value" entry of JSON.stringify
JsonEntry(value, k) ==
    IF k = "summary"
    THEN <<"\"fields\":{\"summary\":\"">> \o Piece(value.val[k]) \o <<"\"}">>
    ELSE <<"\"", k, "\":\"">> \o Piece(value.val[k]) \o <<"\"">>

\* JSON.stringify(value) for the values that reach the fallback
JSONstringify(value) ==
    IF value.type = "boolean" THEN (IF value.val THEN <<"true">> ELSE <<"false">>)
    ELSE LET present == SelectSeq(FieldKeys, LAMBDA k : Has(value, k))
         IN  <<"{">> \o JoinSep([i \in 1..Len(present) |-> JsonEntry(value, present[i])], <<",">>)
                  \o <<"}">>

\* the branch for objects, with name looked at before time tracking
formatObjectNameFirst(value) ==
    IF Has(value, "name") THEN Piece(value.val["name"])
    ELSE IF isTimeTracking(value) THEN formatTimeTracking(value)
    ELSE IF Has(value, "displayName") THEN Piece(value.val["displayName"])
    ELSE IF Has(value, "key")
         THEN IF TruthyField(value, "summary")
              THEN Piece(value.val["key"]) \o <<" - ">> \o Piece(value.val["summary"])
              ELSE Piece(value.val["key"])
    ELSE IF Has(value, "value") THEN Piece(value.val["value"])
    ELSE JSONstringify(value)

\* formatField.ts 51-80: the branch for objects and the fallback
formatObject(value) ==
    IF isTimeTracking(value) THEN formatTimeTracking(value)
    ELSE IF Has(value, "name") THEN Piece(value.val["name"])
    ELSE IF Has(value, "displayName") THEN Piece(value.val["displayName"])
    ELSE IF Has(value, "key")
         THEN IF TruthyField(value, "summary")
              THEN Piece(value.val["key"]) \o <<" - ">> \o Piece(value.val["summary"])
              ELSE Piece(value.val["key"])
    ELSE IF Has(value, "value") THEN Piece(value.val["value"])
    ELSE JSONstringify(value)

RECURSIVE formatField(_)
formatField(value) ==
    IF value.type \in {"null", "undefined"} THEN <<>>
    ELSE IF value.type = "string" THEN Piece(value.val)
    ELSE IF value.type = "number" THEN NumStr(value.val)
    ELSE IF value.type = "array"
         THEN JoinSep([i \in 1..Len(value.val) |-> formatField(value.val[i])], <<", ">>)
    ELSE IF value.type = "object" THEN formatObject(value)
    ELSE JSONstringify(value)

InitField ==
    /\ StatusIdle
    /\ ReportIdle
    /\ creds = TRUE
    /\ gitQueried = FALSE
    /\ branch = None
    /\ pc = "formatField"
    /\ input \in FieldUniverse
    /\ result = None

FormatFieldCall ==
    /\ pc = "formatField"
    /\ result' = Some(formatField(input))
    /\ pc' = "fieldFormatted"
    /\ UNCHANGED <<env, report, git, outcome, out, calls, matching, rescue, input>>

NextField == FormatFieldCall

SpecField == InitField /\ [][NextField]_vars


\* ------------------------------------------------------ field vocabulary
RuleOrder ==
    <<"empty", "primitive", "array", "timeTracking", "name", "displayName",
      "key", "value", "json">>

IsObjectWith(v, keys) == v.type = "object" /\ (DOMAIN v.val) \cap keys # {}

Applicable(rule, v) ==
    CASE rule = "empty" -> v.type \in {"null", "undefined"}
      [] rule = "primitive" -> v.type \in {"string", "number"}
      [] rule = "array" -> v.type = "array"
      [] rule = "timeTracking"
            -> IsObjectWith(v, {"originalEstimate", "timeSpent", "remainingEstimate"})
      [] rule = "json" -> TRUE
      [] OTHER -> IsObjectWith(v, {rule})

\* the first applicable rule
FirstRule(v) ==
    RuleOrder[CHOOSE i \in 1..Len(RuleOrder) :
                 /\ Applicable(RuleOrder[i], v)
                 /\ \A j \in 1..(i - 1) : ~Applicable(RuleOrder[j], v)]

RECURSIVE RuleText(_)
RECURSIVE ItemsText(_)
\* the items' texts with ', ' between them
ItemsText(items) ==
    IF items = <<>> THEN <<>>
    ELSE IF Len(items) = 1 THEN RuleText(items[1])
    ELSE RuleText(items[1]) \o <<", ">> \o ItemsText(Tail(items))

\* the text the first applicable rule gives
RuleText(v) ==
    LET rule == FirstRule(v)
    IN  CASE rule = "empty" -> <<>>
          [] rule = "primitive" -> IF v.type = "number" THEN NumStr(v.val) ELSE Piece(v.val)
          [] rule = "array" -> ItemsText(v.val)
          [] rule = "timeTracking" -> formatTimeTracking(v)
          [] rule = "key"
                -> IF "summary" \in DOMAIN v.val /\ v.val["summary"] # ""
                   THEN <<v.val["key"], " - ", v.val["summary"]>>
                   ELSE <<v.val["key"]>>
          [] rule = "json" -> JSONstringify(v)
          [] OTHER -> <<v.val[rule]>>

\* C23: formatField applies the first applicable rule in the order: null or
\* undefined gives ''; a string or number its string form; an array its
\* elements formatted recursively and joined with ', '; an object with a
\* time-tracking key the time-tracking text, even when it has a name; then
\* name, displayName, key (with ' - summary'), value; anything else its JSON
\* text.
C23_FirstApplicableRule ==
    (pc = "fieldFormatted") => result = Some(RuleText(input))

\* an object with a name and a time spent is formatted as time tracking
C23_Witness ==
    /\ pc = "fieldFormatted"
    /\ input = JsObject([timeSpent |-> "2h", name |-> "In Progress"])
    /\ result = Some(<<"Spent:", " ", "2h">>)


\* ===================================================================
\* getStartDate on every day of a range of the calendar
\* ===================================================================
\* days are counted from Monday 2024-01-01 (day 0); the range runs over a
\* leap day, a change of year and the dates of the tests (May 2025)
MaxDay == 520

IsLeapYear(y) == (y % 4 = 0 /\ y % 100 # 0) \/ y % 400 = 0

\* months are 0..11 as in Date
DaysInMonth(y, m) ==
    IF m = 1 THEN (IF IsLeapYear(y) THEN 29 ELSE 28)
    ELSE IF m \in {3, 5, 8, 10} THEN 30 ELSE 31

\* a local time [year, month, date, hours]
LocalTime(y, m, d, h) == [year |-> y, month |-> m, date |-> d, hours |-> h]

\* new Date(y, m, d): local midnight, a day of the month below 1 counting
\* back into the months before
RECURSIVE NewDate(_, _, _)
NewDate(y, m, d) ==
    IF d >= 1 THEN LocalTime(y, m, d, 0)
    ELSE IF m = 0 THEN NewDate(y - 1, 11, d + DaysInMonth(y - 1, 11))
    ELSE NewDate(y, m - 1, d + DaysInMonth(y, m - 1))

\* the date that lies n days after the first of month m of year y
RECURSIVE DateAfter(_, _, _)
DateAfter(y, m, n) ==
    IF n < DaysInMonth(y, m) THEN LocalTime(y, m, n + 1, 0)
    ELSE IF m = 11 THEN DateAfter(y + 1, 0, n - DaysInMonth(y, m))
    ELSE DateAfter(y, m + 1, n - DaysInMonth(y, m))

\* the number of the day a local time lies in
RECURSIVE DaysBefore(_, _)
DaysBefore(y, m) ==
    IF y = 2024 /\ m = 0 THEN 0
    ELSE IF m = 0 THEN DaysBefore(y - 1, 11) + DaysInMonth(y - 1, 11)
    ELSE DaysBefore(y, m - 1) + DaysInMonth(y, m - 1)

DayNumber(t) == DaysBefore(t.year, t.month) + t.date - 1

\* Date.prototype.getDay: 0 = Sunday, 1 = Monday
getDay(t) == (DayNumber(t) + 1) % 7

DaysFromMondayNoSunday(currentDay) == currentDay - 1

\* currentDay === 0 ? 6 : currentDay - 1
DaysFromMonday(currentDay) == IF currentDay = 0 THEN 6 ELSE currentDay - 1

getStartDate(options, clock) ==
    LET now == [clock EXCEPT !.hours = 0]
    IN  IF options.month THEN NewDate(now.year, now.month, 1)
        ELSE IF options.week
             THEN NewDate(now.year, now.month, now.date - DaysFromMonday(getDay(now)))
             ELSE now

InitStartDate ==
    /\ StatusIdle
    /\ ReportIdle
    /\ creds = TRUE
    /\ gitQueried = FALSE
    /\ branch = None
    /\ pc = "getStartDate"
    /\ \E n \in 0..MaxDay, h \in {0, 10}, mo \in BOOLEAN, w \in BOOLEAN :
          input = [options |-> [month |-> mo, week |-> w],
                   now |-> [DateAfter(2024, 0, n) EXCEPT !.hours = h]]
    /\ result = None

GetStartDateCall ==
    /\ pc = "getStartDate"
    /\ result' = Some(getStartDate(input.options, input.now))
    /\ pc' = "startDate"
    /\ UNCHANGED <<env, report, git, outcome, out, calls, matching, rescue, input>>

NextStartDate == GetStartDateCall

SpecStartDate == InitStartDate /\ [][NextStartDate]_vars

\* ------------------------------------------------------- calendar vocabulary
\* day 0 is a Monday
IsMonday(n) == n % 7 = 0
IsSunday(n) == n % 7 = 6

Today == DayNumber(input.now)
StartDay == DayNumber(Val(result))
Midnight == Val(result).hours = 0

\* C24: with the week option getStartDate returns local midnight of the most
\* recent Monday on or before today (today on a Monday, six days earlier on a
\* Sunday, never more than six days back, never in the future); with the month
\* option the first day of the current month; with no option the start of
\* today.
C24_StartOfPeriod ==
    (pc = "startDate")
    => /\ Midnight
       /\ (input.options.week /\ ~input.options.month)
          => /\ IsMonday(StartDay)
             /\ StartDay <= Today
             /\ Today - StartDay <= 6
             /\ IsMonday(Today) => StartDay = Today
             /\ IsSunday(Today) => StartDay = Today - 6
       /\ input.options.month
          => /\ Val(result).date = 1
             /\ Val(result).month = input.now.month
             /\ Val(result).year = input.now.year
       /\ (~input.options.week /\ ~input.options.month) => StartDay = Today

\* Sunday 2025-06-01 at 10:00: the Monday of that week is 2025-05-26
C24_Witness ==
    /\ pc = "startDate"
    /\ input.options = [month |-> FALSE, week |-> TRUE]
    /\ input.now = LocalTime(2025, 5, 1, 10)
    /\ result = Some(LocalTime(2025, 4, 26, 0))


\* ===================================================================
\* the log command
\* ===================================================================
MaxTokens == 2

S_1h  == <<"1", "h">>
S_30m == <<"3", "0", "m">>

\* what the user types after `jira l`: an optional key, then the duration in
\* up to MaxTokens tokens
DurationTokens == SeqsUpTo({S_1h, S_30m}, MaxTokens)
LogArgvs == { k \o d : k \in {<<>>, <<S_proj1>>}, d \in DurationTokens }

\* the positional argument i of `log [arg1] [arg2]`
Positional(argv, i) == IF i <= Len(argv) THEN Some(argv[i]) ELSE None

LoggingLine(t, k)  == Line("log", "Logging", "", Some(<<t, k>>), {})
TimeLoggedLine     == Line("log", "TimeLogged", "", None, {})
TimeRequired       == "Time spent is required"
TooManyArguments   == Line("error", "TooManyArguments", "", None, {})

AddWorklog(key, timeSpent, ok) ==
    [op |-> "addWorklog", key |-> key, timeSpent |-> timeSpent, ok |-> ok]

InitLog ==
    /\ StatusIdle
    /\ ReportIdle
    /\ creds \in BOOLEAN
    /\ gitQueried = FALSE
    /\ branch = None
    /\ pc = "log"
    /\ input \in LogArgvs
    /\ result = None

\* program.parse: arg1 and arg2 are the first two tokens; tokens beyond the
\* declared arguments are dropped or refused, depending on the release of
\* the argument parser
LogParse ==
    /\ pc = "log"
    /\ UNCHANGED <<creds, userAliases, affectedFieldId, git, calls, matching, rescue, util, report>>
    /\ \/ /\ arg1' = Positional(input, 1)
          /\ arg2' = Positional(input, 2)
          /\ pc' = "logAction"
          /\ UNCHANGED <<out, outcome>>
       \/ /\ Len(input) > 2
          /\ UNCHANGED <<arg1, arg2>>
          /\ out' = Append(out, TooManyArguments)
          /\ outcome' = "exit"
          /\ pc' = "done"

\* index.ts 143-158: key and time spent, client, 'Logging ...'
LogAction ==
    /\ pc = "logAction"
    /\ UNCHANGED <<env, calls, transitions, match, searchStatus, rescue, util, report>>
    /\ LET explicit == IsSome(arg1) /\ Val(arg1) # S_Empty /\ IsSome(RegexMatch(Val(arg1), TRUE))
           timeSpent == IF explicit THEN arg2 ELSE arg1
       IN  \E b \in (IF explicit THEN {None} ELSE BranchStates) :
              LET r == resolveKey(IF explicit THEN arg1 ELSE None, b)
                  notice == IF r.detected THEN <<DetectedLine(r.key)>> ELSE <<>>
              IN  /\ gitQueried' = r.queried
                  /\ branch' = b
                  /\ IF ~r.ok
                     THEN OuterCatch("Could not detect Issue Key") /\ UNCHANGED finalKey
                     ELSE IF ~IsSome(timeSpent) \/ Val(timeSpent) = S_Empty
                     THEN /\ Finish(notice \o <<ErrorLine(TimeRequired)>>)
                          /\ finalKey' = r.key
                     ELSE IF ~creds
                     THEN /\ Finish(notice \o <<ErrorLine("MISSING_CREDS")>>)
                          /\ finalKey' = r.key
                     ELSE /\ out' = out \o notice \o <<LoggingLine(Val(timeSpent), r.key)>>
                          /\ finalKey' = r.key
                          /\ pc' = "addWorklog"
                          /\ UNCHANGED outcome

\* index.ts 160-169: addWorklog answers
LogAddWorklog ==
    /\ pc = "addWorklog"
    /\ UNCHANGED <<env, git, matching, rescue, util, report>>
    /\ LET explicit == IsSome(arg1) /\ IsSome(RegexMatch(Val(arg1), TRUE))
           timeSpent == IF explicit THEN arg2 ELSE arg1
       IN  \E ok \in BOOLEAN :
              /\ calls' = Append(calls, AddWorklog(finalKey, Val(timeSpent), ok))
              /\ IF ok THEN Finish(<<TimeLoggedLine>>) ELSE OuterCatch(GatewayError)

NextLog == LogParse \/ LogAction \/ LogAddWorklog

SpecLog == InitLog /\ [][NextLog]_vars

\* ------------------------------------------------------------ log vocabulary
\* the duration the user typed: the tokens after the key
TypedDuration ==
    IF Len(input) > 0 /\ ValidKeyInput(input[1]) THEN Tail(input) ELSE input

\* a duration token as a time-spent string, several separated by spaces
SpacedTokens(tokens) == JoinSep(tokens, <<" ">>)

\* C25: the log command submits the whole duration the user typed as the time
\* spent: `jira l Task-1 1h 30m` logs 1h 30m to the key.
C25_AsClaimed ==
    (pc = "done" /\ outcome = "returned" /\ Len(calls) > 0 /\ Last(out) = TimeLoggedLine)
    => Last(calls).timeSpent = SpacedTokens(TypedDuration)


\* ----------------------------------------------- order of the gateway calls
DirectAccepted == DirectIdx # 0 /\ calls[DirectIdx].ok

AcceptedMoves == { i \in CallsOf("doTransition") : calls[i].ok }

\* C26: Rescue Mode is entered only when the direct doTransition itself was
\* rejected, so the gateway accepts doTransition at most once in an
\* invocation: after an accepted direct move there is no field edit and no
\* second doTransition, whatever the status read answers.
C26_AsClaimed ==
    /\ (\E k \in 1..Len(out) : out[k] = RescueLine) => DirectRejected
    /\ Cardinality(AcceptedMoves) <= 1
    /\ DirectAccepted => /\ CallsOf("editIssue") = {}
                         /\ CallsOf("doTransition") = {DirectIdx}

\* the place of a call in the order getTransitions, doTransition (direct),
\* getProjectComponents, editIssue, doTransition (retry); the status read
\* belongs to the direct move
Stage(i) ==
    CASE calls[i].op = "getTransitions" -> 1
      [] calls[i].op = "doTransition" /\ i = DirectIdx -> 2
      [] calls[i].op = "getIssue" -> 2
      [] calls[i].op = "getProjectComponents" -> 3
      [] calls[i].op = "editIssue" -> 4
      [] OTHER -> 5

\* C27: the gateway calls of an invocation happen only in the order
\* getTransitions, doTransition (direct), getProjectComponents, editIssue (one
\* or more), doTransition (retry): getTransitions exactly once and first, no
\* editIssue unless the direct move before it failed, the retry only after an
\* accepted editIssue.
C27_AsClaimed ==
    /\ \A i, j \in 1..Len(calls) : i < j => Stage(i) <= Stage(j)
    /\ calls # <<>> => (calls[1].op = "getTransitions"
                         /\ Cardinality(CallsOf("getTransitions")) = 1)
    /\ \A i \in CallsOf("editIssue") : DirectRejected /\ DirectIdx < i
    /\ \A i \in CallsOf("doTransition") :
          i # DirectIdx => \E e \in CallsOf("editIssue") : e < i /\ calls[e].ok


\* ===================================================================
\* alias add, alias rm and the term the status command then searches for
\* ===================================================================
MaxAliasOps == 3

S_qa == <<"q", "a">>

\* cr has a built-in alias, qa has none
AliasShorts == {S_cr, S_qa}
AliasLongs == {S_InReview, S_Empty}
StatusTerms == {S_cr, S_qa, S_constructor}

\* saveAlias: current[short] = long
saveAlias(current, short, long) ==
    [k \in (DOMAIN current) \cup {short} |-> IF k = short THEN long ELSE current[k]]

\* removeAlias: delete current[short]
removeAlias(current, short) ==
    [k \in (DOMAIN current) \ {short} |-> current[k]]

AliasSavedLine   == Line("log", "AliasSaved", "", None, {})
AliasRemovedLine == Line("log", "AliasRemoved", "", None, {})

AliasOp(op, short, long) == [op |-> op, short |-> short, long |-> long]

InitAlias ==
    /\ StatusIdle
    /\ ReportIdle
    /\ creds = TRUE
    /\ gitQueried = FALSE
    /\ branch = None
    /\ pc = "shell"
    /\ input = None
    /\ result = None

\* `jira alias add <short> <long>`
AliasAdd ==
    /\ pc = "shell"
    /\ Len(calls) < MaxAliasOps
    /\ \E s \in AliasShorts, l \in AliasLongs :
          /\ userAliases' = saveAlias(userAliases, s, l)
          /\ calls' = Append(calls, AliasOp("add", s, l))
    /\ out' = Append(out, AliasSavedLine)
    /\ UNCHANGED <<creds, affectedFieldId, arg1, arg2, git, pc, outcome, matching, rescue, util, report>>

\* `jira alias rm <short>`
AliasRm ==
    /\ pc = "shell"
    /\ Len(calls) < MaxAliasOps
    /\ \E s \in AliasShorts :
          /\ userAliases' = removeAlias(userAliases, s)
          /\ calls' = Append(calls, AliasOp("rm", s, S_Empty))
    /\ out' = Append(out, AliasRemovedLine)
    /\ UNCHANGED <<creds, affectedFieldId, arg1, arg2, git, pc, outcome, matching, rescue, util, report>>

\* `jira status PROJ-1 <term>` up to the search term (index.ts 208-229)
StatusTerm ==
    /\ pc = "shell"
    /\ \E term \in StatusTerms :
          /\ arg1' = Some(S_PROJ1)
          /\ arg2' = Some(term)
          /\ finalKey' = S_PROJ1
          /\ searchStatus' = SearchStatus(Spread(DEFAULT_ALIASES, userAliases), term)
    /\ pc' = "searchTerm"
    /\ UNCHANGED <<creds, userAliases, affectedFieldId, git, outcome, out, calls,
                   transitions, match, rescue, util, report>>

NextAlias == AliasAdd \/ AliasRm \/ StatusTerm

SpecAlias == InitAlias /\ [][NextAlias]_vars

\* ---------------------------------------------------------- alias vocabulary
\* the alias operations on a term, in order
OpsOn(term) == SelectSeq(calls, LAMBDA o : o.short = term)

\* C28: after any sequence of alias add and alias rm, the status command
\* searches for the value of the most recent add of the term that no rm of it
\* followed, else for the built-in value of the term, else for the term.
C28_AsClaimed ==
    (pc = "searchTerm")
    => LET term == Val(arg2)
           ops == OpsOn(term)
       IN  searchStatus =
              IF ops # <<>> /\ Last(ops).op = "add" THEN JsString(Last(ops).long)
              ELSE IF term \in DOMAIN DEFAULT_ALIASES THEN JsString(DEFAULT_ALIASES[term])
              ELSE JsString(term)


\* ---------------------------------------------------- full list in place of embedded
\* the issues whose full list has been asked for and has answered
Fetched == { completed[k] : k \in 1..Len(completed) }

\* the entries of issue i that the report has read so far
UsedLogs(i) ==
    IF ~Truncated(issues[i]) THEN issues[i].logs
    ELSE IF i \in Fetched /\ IsSome(issues[i].full) THEN Val(issues[i].full)
    ELSE <<>>

RECURSIVE UsedSum(_)
UsedSum(i) ==
    IF i = 0 THEN 0
    ELSE SumAt(UsedLogs(i), CountedPositions(UsedLogs(i), MyId, input.startDate))
           + UsedSum(i - 1)

\* C29: a full list is fetched for exactly the issues whose reported total
\* exceeds the embedded entries, once each, and never for another issue; the
\* total holds the entries of the fetched list in place of the embedded ones,
\* so every entry is counted at most once.
C29_FetchedInPlaceOfEmbedded ==
    /\ \A i \in pending \cup Fetched : i \in 1..Len(issues) /\ Truncated(issues[i])
    /\ pending \cap Fetched = {}
    /\ \A j, k \in 1..Len(completed) : completed[j] = completed[k] => j = k
    /\ (pc \in {"fetching", "reported"}) => totalSeconds = UsedSum(Len(issues))
    /\ (pc = "reported")
         => Fetched = { i \in 1..Len(issues) : Truncated(issues[i]) }

\* a report over an issue that is not truncated and a truncated issue whose
\* embedded entry is also in its fetched list
C29_Witness ==
    /\ pc = "reported"
    /\ \E i, j \in 1..Len(issues) :
          /\ ~Truncated(issues[i]) /\ issues[i].logs # <<>>
          /\ Truncated(issues[j]) /\ j \in Fetched
          /\ issues[j].logs # <<>>
          /\ IsSome(issues[j].full)
          /\ \E n \in 1..Len(Val(issues[j].full)) : Val(issues[j].full)[n] = issues[j].logs[1]
          /\ CountedPositions(issues[j].logs, MyId, input.startDate) # {}
          /\ totalSeconds = issues[i].logs[1].timeSpentSeconds[1]
                              + issues[j].logs[1].timeSpentSeconds[1]

====
